---- MODULE Spec2Model ----
(***************************************************************************)
(* Scene timeline synchronisation and multi-clip rendering pipeline of     *)
(* ShortsBaksa: the Segmenter (splitScriptWithDurations), the Clip         *)
(* Orchestrator (requestClipVideos / checkAndDownloadClips), the Duration  *)
(* Adjuster (VideoManager.adjustScene), the Merger (mergeClipsIntoVideo /  *)
(* mergeVideosWithAudioSync) and the per-scene pipeline (SceneManager,     *)
(* VideoManager.adjustAllScenes, TimelineComposer.compose).                *)
(*                                                                         *)
(* Units: the Segmenter and the Merger work in tenths of a second (the     *)
(* code rounds section durations to one decimal), the Adjuster in          *)
(* milliseconds.  Divisions of the code are kept exact by comparing        *)
(* cross-multiplied integers; floating-point error is not modelled.        *)
(***************************************************************************)
EXTENDS Integers, Sequences, FiniteSets, TLC

VARIABLES
    segIn,      \* arguments of splitScriptWithDurations
    segOut,     \* [called, sections]: whether it was called, and its return value
    adjIn,      \* the scene handed to VideoManager.adjustScene and what ffmpeg does
    adjOut,     \* [called, threw, adjustmentType, dubbed, finalDurationMs]
    clips,      \* the job's ClipInfo array
    provider,   \* provider argument of requestClipVideos
    narration,  \* real length of the job's narration audio file, tenths of a second
    storage,    \* real length of the video file saved for each clip (0: none)
    lastOp,     \* the operation that ran last
    reqRet,     \* the positions whose submit call succeeded in requestClipVideos
    pollRet,    \* what the last checkAndDownloadClips did and returned
    inverted,   \* some clip was downloaded before a clip of lower index
    mergeRet,   \* what the last mergeClipsIntoVideo did and returned
    scenes,     \* the timeline's Scene array
    sceneOp,    \* the scene operation that ran last
    sceneRet,   \* what the last scene poll queried and the last compose did
    sceneFiles, \* the media files written so far under public/videos/jobs/<jobId>
    sceneWrote, \* the media files the last scene operation wrote there
    job,        \* the job record persisted in data/jobs.json (without its clips)
    ticks,      \* each check-and-upload request in flight: its position and its clips
    asked,      \* the provider each clip's status was asked of by the last poll
    pipeline,   \* where the pipeline request that created the job stands
    merged,     \* the clips a request last handed to mergeClipsIntoVideo
    jobsFile,   \* the content of data/jobs.json
    calls,      \* each updateJobStatus call: its position, arguments and the jobs it read
    tmpDir,     \* the files of public/videos/tmp_sync_merge
    merges,     \* each mergeVideosWithAudioSync call: its position and what ffmpeg read
    idIn,       \* the provider, model, duration and clip job ids of a pipeline run
    idOut       \* [called, brewJobId, parsed]: the brewJobId built and what is parsed from it

segVars == <<segIn, segOut>>
adjVars == <<adjIn, adjOut>>
clipVars == <<clips, provider, narration, storage, lastOp, reqRet, pollRet, inverted,
             mergeRet>>
sceneVars == <<scenes, sceneOp, sceneRet, sceneFiles, sceneWrote>>
jobVars == <<job, ticks, asked, pipeline, merged>>
fileVars == <<jobsFile, calls>>
syncVars == <<tmpDir, merges>>
idVars == <<idIn, idOut>>
vars == <<segIn, segOut, adjIn, adjOut,
          clips, provider, narration, storage, lastOp, reqRet, pollRet, inverted, mergeRet,
          scenes, sceneOp, sceneRet, sceneFiles, sceneWrote, job, ticks, asked,
          pipeline, merged, jobsFile, calls, tmpDir, merges, idIn, idOut>>

(***************************************************************************)
(* Helpers                                                                 *)
(***************************************************************************)
Min2(a, b) == IF a < b THEN a ELSE b
Max2(a, b) == IF a > b THEN a ELSE b
Abs(x) == IF x < 0 THEN -x ELSE x

\* Math.round(n / d) for n >= 0, d > 0 (round half up)
RoundDiv(n, d) == (2 * n + d) \div (2 * d)

RECURSIVE SumSeq(_)
SumSeq(s) == IF s = <<>> THEN 0 ELSE Head(s) + SumSeq(Tail(s))

(***************************************************************************)
(* Segmenter                                                               *)
(***************************************************************************)
MaxScriptLen == 6

Alphabet == {"a", ".", " "}

\* the script of the documented scenario, "A. B. C."
ScenarioScript == <<"A", ".", " ", "B", ".", " ", "C", ".">>

IsTerminator(c) == c \in {".", "!", "?"}
IsSpace(c) == c = " "

\* number of whitespace characters starting at 0-based position q
RECURSIVE SpaceRun(_, _)
SpaceRun(s, q) ==
    IF q + 1 <= Len(s) /\ IsSpace(s[q + 1]) THEN 1 + SpaceRun(s, q + 1) ELSE 0

\* the regular expression /(?<=[.!?])\s*/ tried at 0-based position q:
\* the end of the match, or -1 when the look-behind fails
MatchEnd(s, q) ==
    IF q >= 1 /\ IsTerminator(s[q]) THEN q + SpaceRun(s, q) ELSE -1

\* String.prototype.split with that expression: p is the end of the last
\* separator, q the position tried next; an empty match at p is skipped
RECURSIVE SplitLoop(_, _, _, _)
SplitLoop(s, p, q, acc) ==
    IF q >= Len(s) THEN Append(acc, SubSeq(s, p + 1, Len(s)))
    ELSE LET e == MatchEnd(s, q) IN
         IF e = -1 \/ e = p THEN SplitLoop(s, p, q + 1, acc)
         ELSE SplitLoop(s, e, e, Append(acc, SubSeq(s, p + 1, q)))

RECURSIVE TrimLeft(_)
TrimLeft(s) == IF s # <<>> /\ IsSpace(Head(s)) THEN TrimLeft(Tail(s)) ELSE s

RECURSIVE TrimRight(_)
TrimRight(s) ==
    IF s # <<>> /\ IsSpace(s[Len(s)]) THEN TrimRight(SubSeq(s, 1, Len(s) - 1)) ELSE s

Trim(s) == TrimRight(TrimLeft(s))

RECURSIVE MapTrimNonEmpty(_)
MapTrimNonEmpty(ps) ==
    IF ps = <<>> THEN <<>>
    ELSE LET t == Trim(Head(ps)) IN
         IF Len(t) > 0 THEN <<t>> \o MapTrimNonEmpty(Tail(ps))
         ELSE MapTrimNonEmpty(Tail(ps))

splitIntoSentences(script) == MapTrimNonEmpty(SplitLoop(script, 0, 0, <<>>))

\* Array.prototype.join(' ')
RECURSIVE JoinSpace(_)
JoinSpace(ss) ==
    IF ss = <<>> THEN <<>>
    ELSE IF Len(ss) = 1 THEN Head(ss)
    ELSE Head(ss) \o <<" ">> \o JoinSpace(Tail(ss))

\* ClampRound without the upper clamp
ClampRound_NoUpper(num, den, lo, hi) ==
    IF num < lo * den THEN lo ELSE RoundDiv(num, den)

\* clamp of a duration num/den (tenths of a second) into [lo, hi], then
\* Math.round(x * 10) / 10, as an integer number of tenths
ClampRound(num, den, lo, hi) ==
    IF num < lo * den THEN lo
    ELSE IF num > hi * den THEN hi
    ELSE RoundDiv(num, den)

\* SectionLoop that drops the sentence on which it closes a section
\* (currentSentences = [] in place of [sentence])
RECURSIVE SectionLoop_DropsOverflow(_, _, _, _, _, _)
SectionLoop_DropsOverflow(in, sentences, i, cur, curLen, acc) ==
    IF i > Len(sentences) THEN acc
    ELSE LET sentence == sentences[i]
             den == Len(in.script)
             willExceedTarget ==
                 (curLen + Len(sentence)) * in.audioDuration
                     > (in.targetClipDuration + 15) * den
             isLastSentence == i = Len(sentences)
         IN  IF (willExceedTarget /\ Len(cur) > 0) \/ isLastSentence
             THEN LET cur2 == IF isLastSentence THEN Append(cur, sentence) ELSE cur
                      len2 == IF isLastSentence THEN curLen + Len(sentence) ELSE curLen
                      sec == [text |-> JoinSpace(cur2),
                              duration |-> ClampRound(len2 * in.audioDuration, den,
                                                      in.minDuration, in.maxDuration)]
                  IN  SectionLoop_DropsOverflow(in, sentences, i + 1, <<>>, 0,
                                                Append(acc, sec))
             ELSE SectionLoop_DropsOverflow(in, sentences, i + 1, Append(cur, sentence),
                                            curLen + Len(sentence), acc)

\* first pass of splitScriptWithDurations: the loop over the sentences.
\* cur is the list of sentences of the open section, curLen the sum of their
\* lengths; a duration is curLen * D / totalChars tenths of a second.
RECURSIVE SectionLoop(_, _, _, _, _, _)
SectionLoop(in, sentences, i, cur, curLen, acc) ==
    IF i > Len(sentences) THEN acc
    ELSE LET sentence == sentences[i]
             den == Len(in.script)
             willExceedTarget ==
                 (curLen + Len(sentence)) * in.audioDuration
                     > (in.targetClipDuration + 15) * den
             isLastSentence == i = Len(sentences)
         IN  IF (willExceedTarget /\ Len(cur) > 0) \/ isLastSentence
             THEN LET cur2 == IF isLastSentence THEN Append(cur, sentence) ELSE cur
                      len2 == IF isLastSentence THEN curLen + Len(sentence) ELSE curLen
                      sec == [text |-> JoinSpace(cur2),
                              duration |-> ClampRound(len2 * in.audioDuration, den,
                                                      in.minDuration, in.maxDuration)]
                  IN  IF isLastSentence
                      THEN SectionLoop(in, sentences, i + 1, cur2, len2, Append(acc, sec))
                      ELSE SectionLoop(in, sentences, i + 1, <<sentence>>, Len(sentence),
                                       Append(acc, sec))
             ELSE SectionLoop(in, sentences, i + 1, Append(cur, sentence),
                              curLen + Len(sentence), acc)

RawSections(in) == SectionLoop(in, splitIntoSentences(in.script), 1, <<>>, 0, <<>>)

SectionDurations(secs) == [k \in 1..Len(secs) |-> secs[k].duration]

\* splitScriptWithDurations that falls back to the whole script as one
\* section when the loop produced none
splitScriptWithDurations_WholeScriptFallback(in) ==
    LET sections == RawSections(in)
        total == SumSeq(SectionDurations(sections))
    IN  IF sections = <<>>
        THEN <<[text |-> Trim(in.script), duration |-> in.minDuration]>>
        ELSE [k \in 1..Len(sections) |->
                [text |-> sections[k].text,
                 duration |-> ClampRound(sections[k].duration * in.audioDuration, total,
                                         in.minDuration, in.maxDuration)]]

\* second pass: proportional rescale by audioDuration / total, re-clamp, round
splitScriptWithDurations(in) ==
    LET sections == RawSections(in)
        total == SumSeq(SectionDurations(sections))
    IN  [k \in 1..Len(sections) |->
            [text |-> sections[k].text,
             duration |-> ClampRound(sections[k].duration * in.audioDuration, total,
                                     in.minDuration, in.maxDuration)]]

Scripts == (UNION {[1..n -> Alphabet] : n \in 0..MaxScriptLen}) \cup {ScenarioScript}

\* measured narration lengths, tenths of a second
AudioDurations == {20, 95, 180, 250}

\* (target, min, max) as passed by the pipeline for higgsfield and for veo,
\* and those of the documented scenario
ClipLimits == {<<100, 40, 100>>, <<80, 40, 80>>, <<80, 40, 100>>}

SegInputs ==
    {[script |-> s, audioDuration |-> d, targetClipDuration |-> l[1],
      minDuration |-> l[2], maxDuration |-> l[3]] :
        s \in Scripts, d \in AudioDurations, l \in ClipLimits}

NoSegInput ==
    [script |-> <<>>, audioDuration |-> 10, targetClipDuration |-> 100,
     minDuration |-> 40, maxDuration |-> 100]

SegIdle ==
    /\ segIn = NoSegInput
    /\ segOut = [called |-> FALSE, sections |-> <<>>]

SegInit ==
    /\ segIn \in SegInputs
    /\ segOut = [called |-> FALSE, sections |-> <<>>]

Split ==
    /\ ~segOut.called
    /\ segOut' = [called |-> TRUE, sections |-> splitScriptWithDurations(segIn)]
    /\ UNCHANGED <<segIn, adjVars, fileVars, syncVars, idVars, clipVars, sceneVars, jobVars>>

(***************************************************************************)
(* Duration Adjuster (VideoManager.adjustScene), milliseconds              *)
(***************************************************************************)
\* AdjustmentTypeOf with the freeze threshold taken as exclusive
AdjustmentTypeOf_StrictFreeze(diff) ==
    IF Abs(diff) < 500 THEN "none"
    ELSE IF diff > 0
         THEN IF diff < 2000 THEN "freeze"
              ELSE IF diff <= 4000 THEN "ken_burns"
              ELSE "loop"
         ELSE "trim"

\* the strategy chosen from diff = audioDurationMs - videoDurationMs
AdjustmentTypeOf(diff) ==
    IF Abs(diff) < 500 THEN "none"
    ELSE IF diff > 0
         THEN IF diff <= 2000 THEN "freeze"
              ELSE IF diff <= 4000 THEN "ken_burns"
              ELSE "loop"
         ELSE "trim"

\* AdjustedLengthMs where the copy is cut at the target too
AdjustedLengthMs_CopyCut(type, videoDurationMs, audioDurationMs) ==
    IF type = "none" THEN Min2(videoDurationMs, audioDurationMs) ELSE audioDurationMs

\* length of the file written by the chosen ffmpeg step: a copy keeps the
\* clip's length, every other step ends its output at the target (-t)
AdjustedLengthMs(type, videoDurationMs, audioDurationMs) ==
    IF type = "none" THEN videoDurationMs ELSE audioDurationMs

\* addAudioToVideo: the narration replaces the audio track and -shortest
\* ends the output with the shorter stream; if ffmpeg fails the video is
\* copied unchanged
addAudioToVideo(videoMs, audioFileMs, dubFails) ==
    IF dubFails THEN videoMs ELSE Min2(videoMs, audioFileMs)

\* scene: videoDurationMs, audioDurationMs, audioIncluded, hasAudioPath;
\* audioFileMs is the real length of the file at scene.audioPath;
\* stepFails / dubFails / probeFails say which external process fails
\* needsDubbing without the audioIncluded test
NeedsDubbing_IgnoresAudioIncluded(a) == a.hasAudioPath

\* const needsDubbing = !scene.audioIncluded && scene.audioPath
NeedsDubbing(a) == ~a.audioIncluded /\ a.hasAudioPath

adjustScene(a) ==
    LET diff == a.audioDurationMs - a.videoDurationMs
        needsDubbing == NeedsDubbing(a)
        adjustmentType == AdjustmentTypeOf(diff)
        stepMs == AdjustedLengthMs(adjustmentType, a.videoDurationMs, a.audioDurationMs)
        outMs == IF needsDubbing THEN addAudioToVideo(stepMs, a.audioFileMs, a.dubFails)
                 ELSE stepMs
    IN  IF a.stepFails \/ a.probeFails
        THEN [called |-> TRUE, threw |-> TRUE, adjustmentType |-> "none",
              dubCalled |-> needsDubbing /\ ~a.stepFails,
              dubbed |-> FALSE, finalDurationMs |-> 0]
        ELSE [called |-> TRUE, threw |-> FALSE, adjustmentType |-> adjustmentType,
              dubCalled |-> needsDubbing,
              dubbed |-> needsDubbing /\ ~a.dubFails, finalDurationMs |-> outMs]

VideoDurationsMs == {5000, 9000}

\* audioDurationMs - videoDurationMs: the thresholds, their neighbours and
\* the documented scenarios (1200, 4500, -3000)
AdjDeltasMs ==
    {-3000, -501, -500, -499, -200, 0, 200, 499, 500, 501, 1200, 1999, 2000, 2001,
     3000, 3999, 4000, 4001, 4500}

\* real length of the narration file minus scene.audioDurationMs (the field
\* is measured for generated audio and estimated from the text otherwise)
AudioFileSkewMs == {-300, 0, 300}

AdjInputs ==
    {[videoDurationMs |-> v, audioDurationMs |-> v + d, audioIncluded |-> inc,
      hasAudioPath |-> hp, audioFileMs |-> v + d + k,
      stepFails |-> sf, dubFails |-> df, probeFails |-> pf] :
        v \in VideoDurationsMs, d \in AdjDeltasMs, inc \in BOOLEAN, hp \in BOOLEAN,
        k \in AudioFileSkewMs, sf \in BOOLEAN, df \in BOOLEAN, pf \in BOOLEAN}

NoAdjInput ==
    [videoDurationMs |-> 5000, audioDurationMs |-> 5000, audioIncluded |-> FALSE,
     hasAudioPath |-> FALSE, audioFileMs |-> 5000,
     stepFails |-> FALSE, dubFails |-> FALSE, probeFails |-> FALSE]

NoAdjOutput ==
    [called |-> FALSE, threw |-> FALSE, adjustmentType |-> "none",
     dubCalled |-> FALSE, dubbed |-> FALSE, finalDurationMs |-> 0]

AdjIdle ==
    /\ adjIn = NoAdjInput
    /\ adjOut = NoAdjOutput

AdjInit ==
    /\ adjIn \in AdjInputs
    /\ adjOut = NoAdjOutput

AdjustScene ==
    /\ ~adjOut.called
    /\ adjOut' = adjustScene(adjIn)
    /\ UNCHANGED <<adjIn, segVars, fileVars, syncVars, idVars, clipVars, sceneVars, jobVars>>

(***************************************************************************)
(* Clip Orchestrator and Merger (lib/multi-clip.ts, lib/ffmpeg.ts),        *)
(* tenths of a second                                                      *)
(***************************************************************************)
MaxClips == 2

\* ffprobe failures on clip files within one merge
MaxProbeFailures == 1

\* an absent jobId or videoUrl (undefined)
NoId == <<>>

\* section durations handed to initializeClipsFromSections
SectionDurationChoices == {40, 100}

\* real lengths of the videos a provider delivers
FileDurations == {45, 80, 110}

\* real lengths of the narration audio
NarrationDurations == {130, 250}

\* getAudioDuration's value when ffprobe fails (60 s)
DefaultAudioDuration == 600

Providers == {"higgsfield", "veo"}

initializeClipsFromSections(durs) ==
    [k \in 1..Len(durs) |->
        [index |-> k - 1, scriptSection |-> <<"section", k>>, prompt |-> NoId,
         duration |-> durs[k], status |-> "pending",
         jobId |-> NoId, videoUrl |-> NoId]]

\* generateClipPrompts: every clip gets a prompt made from its own section
\* (the generated one, or the fallback when the generator throws)
generateClipPrompts(cl) ==
    [k \in 1..Len(cl) |-> [cl[k] EXCEPT !.prompt = <<"prompt", cl[k].scriptSection>>]]

\* requestClipVideos without the try/catch around the submit call: the first
\* failing submit ends the loop and the clips after it are never requested
requestClipVideos_AbortsOnFailure(cl, prov, submitted) ==
    [k \in 1..Len(cl) |->
        LET clip == cl[k]
            duration == IF prov = "veo"
                        THEN Min2(Max2(clip.duration, 40), 80)
                        ELSE clip.duration
        IN  IF \E j \in 1..(k - 1) : j \notin submitted THEN clip
            ELSE IF k \in submitted
            THEN [clip EXCEPT !.duration = duration, !.status = "processing",
                              !.jobId = <<prov, k>>]
            ELSE [clip EXCEPT !.status = "failed"]]

\* requestClipVideos: submitted is the set of positions whose submit call
\* succeeds; the others throw and are marked failed
requestClipVideos(cl, prov, submitted) ==
    [k \in 1..Len(cl) |->
        LET clip == cl[k]
            duration == IF prov = "veo"
                        THEN Min2(Max2(clip.duration, 40), 80)
                        ELSE clip.duration
        IN  IF k \in submitted
            THEN [clip EXCEPT !.duration = duration, !.status = "processing",
                              !.jobId = <<prov, k>>]
            ELSE [clip EXCEPT !.status = "failed"]]

IsSettled(clip) == clip.status = "completed" \/ clip.status = "failed"

\* Queried that skips completed clips only
Queried_SkipsOnlyCompleted(cl) ==
    {k \in 1..Len(cl) : cl[k].status # "completed" /\ cl[k].jobId # NoId}

\* positions whose provider is asked for a status by checkAndDownloadClips
Queried(cl) == {k \in 1..Len(cl) : ~IsSettled(cl[k]) /\ cl[k].jobId # NoId}

\* what one status query and the download after it can do: the provider
\* answers pending, processing, failed, completed without a video URL, or
\* completed with a video of some length that is downloaded and saved; or one
\* of the calls throws
PollOutcomes ==
    {[kind |-> k, dur |-> 0] :
        k \in {"pending", "processing", "failed", "completed_no_url", "throws"}}
    \cup {[kind |-> "completed", dur |-> d] : d \in FileDurations}

NoOutcome == [kind |-> "pending", dur |-> 0]

\* saveVideo's url for clip k (clip-<job>-<k>-<time>.mp4)
ClipUrl(k) == <<"clip", k>>

\* checkAndDownloadClips without the try/catch inside the loop: the first call
\* that throws ends the loop and the clips after it are not polled
checkAndDownloadClips_AbortsOnThrow(cl, r) ==
    LET aborted(k) == \E j \in Queried(cl) : j < k /\ r[j].kind = "throws"
        updatedClips ==
            [k \in 1..Len(cl) |->
                IF k \notin Queried(cl) \/ aborted(k) THEN cl[k]
                ELSE IF r[k].kind = "completed"
                     THEN [cl[k] EXCEPT !.status = "completed", !.videoUrl = ClipUrl(k)]
                ELSE IF r[k].kind = "failed"
                     THEN [cl[k] EXCEPT !.status = "failed"]
                ELSE cl[k]]
        pendingCount ==
            Cardinality({k \in Queried(cl) : r[k].kind \notin {"completed", "failed"}})
    IN  [clips |-> updatedClips, allCompleted |-> pendingCount = 0]

\* checkAndDownloadClips that trusts the provider's status alone: a clip the
\* provider reports completed is marked completed even when the answer carries
\* no video URL and nothing was downloaded
checkAndDownloadClips_TrustsStatus(cl, r) ==
    LET updatedClips ==
            [k \in 1..Len(cl) |->
                IF k \notin Queried(cl) THEN cl[k]
                ELSE IF r[k].kind = "completed"
                     THEN [cl[k] EXCEPT !.status = "completed", !.videoUrl = ClipUrl(k)]
                ELSE IF r[k].kind = "completed_no_url"
                     THEN [cl[k] EXCEPT !.status = "completed"]
                ELSE IF r[k].kind = "failed"
                     THEN [cl[k] EXCEPT !.status = "failed"]
                ELSE cl[k]]
        pendingCount ==
            Cardinality({k \in Queried(cl) :
                            r[k].kind \notin {"completed", "completed_no_url", "failed"}})
    IN  [clips |-> updatedClips, allCompleted |-> pendingCount = 0]

\* checkAndDownloadClips: r[k] is the outcome of the query for position k
checkAndDownloadClips(cl, r) ==
    LET updatedClips ==
            [k \in 1..Len(cl) |->
                IF k \notin Queried(cl) THEN cl[k]
                ELSE IF r[k].kind = "completed"
                     THEN [cl[k] EXCEPT !.status = "completed", !.videoUrl = ClipUrl(k)]
                ELSE IF r[k].kind = "failed"
                     THEN [cl[k] EXCEPT !.status = "failed"]
                ELSE cl[k]]
        pendingCount ==
            Cardinality({k \in Queried(cl) : r[k].kind \notin {"completed", "failed"}})
    IN  [clips |-> updatedClips, allCompleted |-> pendingCount = 0]

\* InsertByIndex with the comparator reversed (b.index - a.index)
RECURSIVE InsertByIndex_Descending(_, _)
InsertByIndex_Descending(c, sorted) ==
    IF sorted = <<>> THEN <<c>>
    ELSE IF c.index > Head(sorted).index THEN <<c>> \o sorted
    ELSE <<Head(sorted)>> \o InsertByIndex_Descending(c, Tail(sorted))

\* Array.prototype.sort((a, b) => a.index - b.index), by insertion
RECURSIVE InsertByIndex(_, _)
InsertByIndex(c, sorted) ==
    IF sorted = <<>> THEN <<c>>
    ELSE IF c.index < Head(sorted).index THEN <<c>> \o sorted
    ELSE <<Head(sorted)>> \o InsertByIndex(c, Tail(sorted))

RECURSIVE SortByIndex(_)
SortByIndex(cl) ==
    IF cl = <<>> THEN <<>>
    ELSE InsertByIndex(cl[Len(cl)], SortByIndex(SubSeq(cl, 1, Len(cl) - 1)))

IsCompletedWithUrl(c) == c.status = "completed" /\ c.videoUrl # NoId

CompletedClips(cl) == SortByIndex(SelectSeq(cl, IsCompletedWithUrl))

\* path.join(process.cwd(), 'public', urlPath)
ClipPath(url) == <<"public">> \o url

FillerPath == <<"tmp_sync_merge", "filler.mp4">>

\* real length of the file at a clip path
FileLength(st, p) == IF Len(p) = 3 /\ p[3] \in DOMAIN st THEN st[p[3]] ELSE 0

\* getVideoDuration: ffprobe, 0 when it fails
getVideoDuration(st, p, env) == IF p[3] \in env.videoProbeFails THEN 0 ELSE FileLength(st, p)

\* getAudioDuration: ffprobe, 60 s when it fails
getAudioDuration(audio, env) == IF env.audioProbeFails THEN DefaultAudioDuration ELSE audio

\* the loop summing getVideoDuration over the paths from position k on
RECURSIVE TotalProbed(_, _, _, _)
TotalProbed(st, ps, env, k) ==
    IF k > Len(ps) THEN 0
    ELSE getVideoDuration(st, ps[k], env) + TotalProbed(st, ps, env, k + 1)

\* what the concatenation of the paths from position k on really lasts
RECURSIVE TotalLength(_, _, _)
TotalLength(st, ps, k) ==
    IF k > Len(ps) THEN 0 ELSE FileLength(st, ps[k]) + TotalLength(st, ps, k + 1)

MergeThrew ==
    [threw |-> TRUE, hasOutput |-> FALSE, synced |-> FALSE, concatList |-> <<>>,
     fillerSource |-> NoId, fillerDuration |-> 0, audioDuration |-> 0,
     totalVideoDuration |-> 0, outputDuration |-> 0]

\* mergeVideos without an audio track: plain concatenation
mergeVideos(videoPaths, st, env) ==
    IF videoPaths = <<>> \/ env.fails # "none" THEN MergeThrew
    ELSE
         [MergeThrew EXCEPT !.threw = FALSE, !.hasOutput = TRUE,
                            !.concatList = videoPaths,
                            !.outputDuration = TotalLength(st, videoPaths, 1)]

\* mergeVideosWithAudioSync adding a filler for any shortfall at all
mergeVideosWithAudioSync_NoMargin(videoPaths, audio, st, env) ==
    IF videoPaths = <<>> \/ env.fails = "missing" THEN MergeThrew
    ELSE LET audioDuration == getAudioDuration(audio, env)
             totalVideoDuration == TotalProbed(st, videoPaths, env, 1)
             needsFiller == totalVideoDuration < audioDuration
             shortfall == audioDuration - totalVideoDuration + 10
             lastVideoPath == videoPaths[Len(videoPaths)]
             finalVideoPaths == IF needsFiller THEN Append(videoPaths, FillerPath)
                                ELSE videoPaths
             videoLength == TotalLength(st, videoPaths, 1)
                            + (IF needsFiller THEN shortfall ELSE 0)
             planned == [MergeThrew EXCEPT
                            !.synced = TRUE,
                            !.fillerSource = IF needsFiller THEN lastVideoPath ELSE NoId,
                            !.fillerDuration = IF needsFiller THEN shortfall ELSE 0,
                            !.audioDuration = audioDuration,
                            !.totalVideoDuration = totalVideoDuration]
         IN  IF needsFiller /\ env.fails = "filler" THEN planned
             ELSE IF env.fails = "concat"
                  THEN [planned EXCEPT !.concatList = finalVideoPaths]
             ELSE [planned EXCEPT
                      !.threw = FALSE, !.hasOutput = TRUE,
                      !.concatList = finalVideoPaths,
                      \* -t audioDuration ends the output; without -shortest it
                      \* otherwise lasts as long as its longest stream
                      !.outputDuration = Min2(audioDuration, Max2(videoLength, audio))]

\* mergeVideosWithAudioSync; env.fails says which external step fails:
\* none, missing (ffmpeg not installed), filler (createFillerFromLastFrame
\* throws) or concat (the final ffmpeg run throws)
mergeVideosWithAudioSync(videoPaths, audio, st, env) ==
    IF videoPaths = <<>> \/ env.fails = "missing" THEN MergeThrew
    ELSE LET audioDuration == getAudioDuration(audio, env)
             totalVideoDuration == TotalProbed(st, videoPaths, env, 1)
             needsFiller == totalVideoDuration < audioDuration - 5
             shortfall == audioDuration - totalVideoDuration + 10
             lastVideoPath == videoPaths[Len(videoPaths)]
             finalVideoPaths == IF needsFiller THEN Append(videoPaths, FillerPath)
                                ELSE videoPaths
             videoLength == TotalLength(st, videoPaths, 1)
                            + (IF needsFiller THEN shortfall ELSE 0)
             planned == [MergeThrew EXCEPT
                            !.synced = TRUE,
                            !.fillerSource = IF needsFiller THEN lastVideoPath ELSE NoId,
                            !.fillerDuration = IF needsFiller THEN shortfall ELSE 0,
                            !.audioDuration = audioDuration,
                            !.totalVideoDuration = totalVideoDuration]
         IN  IF needsFiller /\ env.fails = "filler" THEN planned
             ELSE IF env.fails = "concat"
                  THEN [planned EXCEPT !.concatList = finalVideoPaths]
             ELSE [planned EXCEPT
                      !.threw = FALSE, !.hasOutput = TRUE,
                      !.concatList = finalVideoPaths,
                      \* -t audioDuration ends the output; without -shortest it
                      \* otherwise lasts as long as its longest stream
                      !.outputDuration = Min2(audioDuration, Max2(videoLength, audio))]

RECURSIVE MapClipPath(_)
MapClipPath(cl) ==
    IF cl = <<>> THEN <<>> ELSE <<ClipPath(Head(cl).videoUrl)>> \o MapClipPath(Tail(cl))

\* mergeClipsIntoVideo that returns the output path when nothing completed
mergeClipsIntoVideo_ReturnsOnEmpty(cl, audio, st, env) ==
    LET completedClips == CompletedClips(cl)
        clipPaths == MapClipPath(completedClips)
    IN  IF Len(completedClips) = 0
        THEN [MergeThrew EXCEPT !.threw = FALSE, !.hasOutput = TRUE]
        ELSE IF env.audioGiven THEN mergeVideosWithAudioSync(clipPaths, audio, st, env)
        ELSE mergeVideos(clipPaths, st, env)

\* mergeClipsIntoVideo(clips, outputPath, audioPath?, audioDuration?);
\* env.audioGiven says whether audioPath is passed
mergeClipsIntoVideo(cl, audio, st, env) ==
    LET completedClips == CompletedClips(cl)
        clipPaths == MapClipPath(completedClips)
    IN  IF Len(completedClips) = 0 THEN MergeThrew
        ELSE CHOOSE result \in
                 {IF env.audioGiven
                  THEN mergeVideosWithAudioSync(paths, audio, st, env)
                  ELSE mergeVideos(paths, st, env) : paths \in {clipPaths}} : TRUE

\* the environments of one merge; fields that the path taken never reads are
\* held at one value
MergeEnvs(cl) ==
    LET done == {k \in 1..Len(cl) : IsCompletedWithUrl(cl[k])} IN
    {[audioGiven |-> FALSE, audioProbeFails |-> FALSE, videoProbeFails |-> {},
      fails |-> f] : f \in {"none", "missing", "concat"}}
    \cup {[audioGiven |-> TRUE, audioProbeFails |-> FALSE, videoProbeFails |-> {},
           fails |-> "missing"]}
    \cup {[audioGiven |-> TRUE, audioProbeFails |-> a, videoProbeFails |-> v,
           fails |-> f] :
            a \in BOOLEAN, f \in {"none", "filler", "concat"},
            v \in {w \in SUBSET done : Cardinality(w) <= MaxProbeFailures}}

NoMergeEnv ==
    [audioGiven |-> FALSE, audioProbeFails |-> FALSE, videoProbeFails |-> {},
     fails |-> "none"]

NoPollRet == [allCompleted |-> FALSE, queried |-> {}, outcome |-> <<>>]

NoMergeRet == [called |-> FALSE, env |-> NoMergeEnv, result |-> MergeThrew]

ClipIdle ==
    /\ clips = <<>>
    /\ provider = "higgsfield"
    /\ narration = 0
    /\ storage = <<>>
    /\ lastOp = "idle"
    /\ reqRet = {}
    /\ pollRet = NoPollRet
    /\ inverted = FALSE
    /\ mergeRet = NoMergeRet

ClipInit ==
    /\ \E n \in 1..MaxClips :
         \E durs \in [1..n -> SectionDurationChoices] :
            /\ clips = generateClipPrompts(initializeClipsFromSections(durs))
            /\ storage = [k \in 1..n |-> 0]
    /\ provider \in Providers
    /\ narration \in NarrationDurations
    /\ lastOp = "init"
    /\ reqRet = {}
    /\ pollRet = NoPollRet
    /\ inverted = FALSE
    /\ mergeRet = NoMergeRet

\* the pipeline calls requestClipVideos once, on the initialized clips
RequestClipVideos ==
    /\ lastOp = "init"
    /\ \E submitted \in SUBSET (1..Len(clips)) :
         /\ clips' = requestClipVideos(clips, provider, submitted)
         /\ reqRet' = submitted
    /\ lastOp' = "request"
    /\ UNCHANGED <<provider, narration, storage, pollRet, inverted, mergeRet,
                   segVars, adjVars, fileVars, syncVars, idVars, sceneVars, jobVars>>

\* one polling tick
CheckAndDownloadClips ==
    /\ lastOp \in {"init", "request", "poll"}
    /\ \E r \in [1..Len(clips) -> PollOutcomes] :
         /\ \A k \in 1..Len(clips) : k \notin Queried(clips) => r[k] = NoOutcome
         /\ LET ret == checkAndDownloadClips(clips, r)
                downloaded == {k \in Queried(clips) : r[k].kind = "completed"}
            IN  /\ clips' = ret.clips
                /\ storage' = [k \in 1..Len(clips) |->
                                  IF k \in downloaded THEN r[k].dur ELSE storage[k]]
                /\ pollRet' = [allCompleted |-> ret.allCompleted,
                               queried |-> Queried(clips),
                               outcome |-> [k \in 1..Len(clips) |-> r[k].kind]]
                /\ inverted' =
                     (inverted \/ \E k \in downloaded : \E j \in 1..Len(clips) :
                                     j > k /\ clips[j].status = "completed")
    /\ lastOp' = "poll"
    /\ UNCHANGED <<provider, narration, reqRet, mergeRet, segVars, adjVars, fileVars, syncVars, idVars, sceneVars, jobVars>>

\* one merge of the job's clips
MergeClipsIntoVideo ==
    /\ lastOp \in {"init", "request", "poll"}
    /\ \E env \in MergeEnvs(clips) :
         mergeRet' = [called |-> TRUE, env |-> env,
                      result |-> mergeClipsIntoVideo(clips, narration, storage, env)]
    /\ lastOp' = "merge"
    /\ UNCHANGED <<clips, provider, narration, storage, reqRet, pollRet, inverted,
                   segVars, adjVars, fileVars, syncVars, idVars, sceneVars, jobVars>>

(***************************************************************************)
(* Per-scene pipeline: SceneManager, adjustAllScenes, TimelineComposer     *)
(***************************************************************************)
SceneNoRet ==
    [submitted |-> {}, queried |-> {}, outcome |-> <<>>, composed |-> FALSE,
     threw |-> FALSE, list |-> <<>>]

\* ScriptManager.createScenesFromSentences followed by generatePrompts, which
\* gives every scene a prompt (the fallback prompt when generation fails)
createScenesFromSentences(durs) ==
    [k \in 1..Len(durs) |->
        [id |-> k, prompt |-> TRUE, audioDurationMs |-> durs[k],
         videoStatus |-> "pending", videoPath |-> NoId, videoDurationMs |-> 0,
         adjustmentType |-> "unset", adjustedVideoPath |-> NoId]]

\* narration lengths of a scene: as long as the clip, and 3 s longer
SceneAudioDurationsMs == {5000, 8000}

SceneJobId(id) == <<"job", id>>

\* SceneManager.requestVideos(scs); submitted: the scenes whose provider
\* request succeeds
requestVideos(scs, submitted) ==
    [k \in 1..Len(scs) |->
        IF ~scs[k].prompt THEN [scs[k] EXCEPT !.videoStatus = "failed"]
        ELSE IF k \in submitted
             THEN [scs[k] EXCEPT !.videoStatus = "generating",
                                 !.videoPath = SceneJobId(scs[k].id)]
        ELSE [scs[k] EXCEPT !.videoStatus = "failed"]]

\* checkAndDownloadVideos skipping only completed and adjusted scenes
SceneQueried_RetriesFailed(scs) ==
    {k \in 1..Len(scs) :
        /\ scs[k].videoStatus \notin {"completed", "adjusted"}
        /\ scs[k].videoStatus \in {"generating", "failed"}
        /\ scs[k].videoPath # NoId}

\* the scenes for which checkAndDownloadVideos asks the provider
SceneQueried(scs) ==
    {k \in 1..Len(scs) :
        /\ scs[k].videoStatus \notin {"completed", "failed", "adjusted"}
        /\ scs[k].videoStatus = "generating"
        /\ scs[k].videoPath # NoId}

SceneFile(id) == <<"scene", id>>

SceneDurationMs == 5000

\* SceneManager.checkAndDownloadVideos(scs); r[k]: what the provider, the
\* download and ffprobe do for scene k
checkAndDownloadVideos(scs, r) ==
    [k \in 1..Len(scs) |->
        IF k \notin SceneQueried(scs) THEN scs[k]
        ELSE IF r[k].kind = "completed"
             THEN [scs[k] EXCEPT !.videoPath = SceneFile(scs[k].id),
                                 !.videoDurationMs = SceneDurationMs,
                                 !.videoStatus = "completed"]
        ELSE IF r[k].kind = "failed" THEN [scs[k] EXCEPT !.videoStatus = "failed"]
        ELSE scs[k]]

AdjustedFile(id) == <<"adjusted", id>>

\* the call adjustScene(scene) of adjustAllScenes; stepFails: an ffmpeg step
\* of the adjustment throws
AdjustSceneOf(sc, stepFails) ==
    adjustScene([videoDurationMs |-> sc.videoDurationMs,
                 audioDurationMs |-> sc.audioDurationMs,
                 audioIncluded |-> FALSE, hasAudioPath |-> TRUE,
                 audioFileMs |-> sc.audioDurationMs,
                 stepFails |-> stepFails, dubFails |-> FALSE, probeFails |-> FALSE])

\* VideoManager.adjustAllScenes(scs); ok: the scenes whose adjustScene returns
adjustAllScenes(scs, ok) ==
    [k \in 1..Len(scs) |->
        IF scs[k].videoStatus # "completed" \/ scs[k].videoPath = NoId
              \/ scs[k].videoDurationMs = 0
        THEN scs[k]
        ELSE LET result == AdjustSceneOf(scs[k], k \notin ok)
             IN  IF ~result.threw
                 THEN [scs[k] EXCEPT !.adjustmentType = result.adjustmentType,
                                     !.adjustedVideoPath = AdjustedFile(scs[k].id),
                                     !.videoStatus = "adjusted"]
                 ELSE scs[k]]

\* the scene edit route: requestVideos on the one scene, reset to pending;
\* the route copies videoStatus and videoPath back into the scene
regenerateScene(scs, k, ok) ==
    LET requested == requestVideos(<<[scs[k] EXCEPT !.videoStatus = "pending"]>>,
                                   IF ok THEN {1} ELSE {})
    IN  [scs EXCEPT ![k] = [scs[k] EXCEPT !.videoStatus = requested[1].videoStatus,
                                          !.videoPath = requested[1].videoPath]]

IsValidScene(sc) ==
    /\ sc.videoStatus \in {"adjusted", "completed"}
    /\ (sc.adjustedVideoPath # NoId \/ sc.videoPath # NoId)

\* Array.prototype.sort((a, b) => a.id - b.id) as an insertion sort
RECURSIVE InsertById(_, _)
InsertById(sc, sorted) ==
    IF sorted = <<>> THEN <<sc>>
    ELSE IF sc.id < Head(sorted).id THEN <<sc>> \o sorted
    ELSE <<Head(sorted)>> \o InsertById(sc, Tail(sorted))

RECURSIVE SortById(_)
SortById(scs) ==
    IF scs = <<>> THEN <<>>
    ELSE LET rest == SortById(SubSeq(scs, 1, Len(scs) - 1))
         IN  InsertById(scs[Len(scs)], rest)

ScenePathOf(sc) ==
    IF sc.adjustedVideoPath # NoId THEN sc.adjustedVideoPath ELSE sc.videoPath

\* TimelineComposer.compose(scs): the files it concatenates, in order;
\* ffmpegFails: the concatenation or the final probe fails
compose(scs, ffmpegFails) ==
    LET validScenes == SortById(SelectSeq(scs, IsValidScene))
    IN  IF Len(validScenes) = 0
        THEN [SceneNoRet EXCEPT !.composed = TRUE, !.threw = TRUE]
        ELSE [SceneNoRet EXCEPT
                 !.composed = TRUE, !.threw = ffmpegFails,
                 !.list = [i \in 1..Len(validScenes) |-> ScenePathOf(validScenes[i])]]

\* the scene files one checkAndDownloadVideos saves (scene_NN.mp4)
DownloadedFiles(scs, r) ==
    {SceneFile(scs[k].id) : k \in {j \in SceneQueried(scs) : r[j].kind = "completed"}}

TempFile(id) == <<"temp", id>>

\* the files one adjustAllScenes writes: scene_NN_temp.mp4 and
\* scene_NN_adjusted.mp4 of each scene whose adjustScene returns
AdjustedFiles(scs, ok) ==
    LET done == {k \in 1..Len(scs) :
                    /\ scs[k].videoStatus = "completed"
                    /\ scs[k].videoPath # NoId
                    /\ scs[k].videoDurationMs # 0
                    /\ ~AdjustSceneOf(scs[k], k \notin ok).threw}
    IN  {TempFile(scs[k].id) : k \in done} \cup {AdjustedFile(scs[k].id) : k \in done}

\* the file compose writes (composed.mp4)
ComposedFile == <<"composed">>

SceneIdle ==
    /\ scenes = <<>>
    /\ sceneOp = "idle"
    /\ sceneRet = SceneNoRet
    /\ sceneFiles = {}
    /\ sceneWrote = {}

SceneInit ==
    /\ \E n \in 1..MaxClips :
         \E durs \in [1..n -> SceneAudioDurationsMs] :
            scenes = createScenesFromSentences(durs)
    /\ sceneOp = "init"
    /\ sceneRet = SceneNoRet
    /\ sceneFiles = {}
    /\ sceneWrote = {}

\* POST scenes: generatePrompts, then requestVideos on every scene; the route
\* does not look at the scenes' status, so it can be posted again later
RequestVideos ==
    /\ sceneOp \in {"init", "request", "poll", "adjust", "retry"}
    /\ \E submitted \in SUBSET (1..Len(scenes)) :
         /\ scenes' = requestVideos(scenes, submitted)
         /\ sceneRet' = [sceneRet EXCEPT !.submitted = submitted]
    /\ sceneOp' = "request"
    /\ sceneWrote' = {}
    /\ UNCHANGED <<sceneFiles, segVars, adjVars, fileVars, syncVars, idVars, clipVars, jobVars>>

\* GET scenes: one polling tick
CheckAndDownloadVideos ==
    /\ sceneOp \in {"init", "request", "poll", "adjust", "retry"}
    /\ \E r \in [1..Len(scenes) -> {"generating", "failed", "completed", "throws"}] :
         /\ \A k \in 1..Len(scenes) : k \notin SceneQueried(scenes) => r[k] = "throws"
         /\ LET outcome == [k \in 1..Len(scenes) |-> [kind |-> r[k]]] IN
            /\ scenes' = checkAndDownloadVideos(scenes, outcome)
            /\ sceneWrote' = DownloadedFiles(scenes, outcome)
            /\ sceneFiles' = sceneFiles \cup DownloadedFiles(scenes, outcome)
            /\ sceneRet' = [sceneRet EXCEPT !.queried = SceneQueried(scenes),
                                            !.outcome = r]
    /\ sceneOp' = "poll"
    /\ UNCHANGED <<segVars, adjVars, fileVars, syncVars, idVars, clipVars, jobVars>>

\* POST adjust
AdjustAllScenes ==
    /\ sceneOp \in {"request", "poll", "adjust", "retry"}
    /\ \E ok \in SUBSET (1..Len(scenes)) :
         /\ scenes' = adjustAllScenes(scenes, ok)
         /\ sceneWrote' = AdjustedFiles(scenes, ok)
         /\ sceneFiles' = sceneFiles \cup AdjustedFiles(scenes, ok)
    /\ sceneOp' = "adjust"
    /\ UNCHANGED <<sceneRet, segVars, adjVars, fileVars, syncVars, idVars, clipVars, jobVars>>

\* PUT scene with regenerateVideo
RegenerateScene ==
    /\ sceneOp \in {"request", "poll", "adjust", "retry"}
    /\ \E k \in 1..Len(scenes) : \E ok \in BOOLEAN :
         scenes' = regenerateScene(scenes, k, ok)
    /\ sceneOp' = "retry"
    /\ sceneWrote' = {}
    /\ UNCHANGED <<sceneRet, sceneFiles, segVars, adjVars, fileVars, syncVars, idVars, clipVars, jobVars>>

\* POST compose
Compose ==
    /\ sceneOp \in {"init", "request", "poll", "adjust", "retry"}
    /\ \E ffmpegFails \in BOOLEAN :
         /\ sceneRet' = [compose(scenes, ffmpegFails) EXCEPT
                             !.queried = sceneRet.queried,
                             !.outcome = sceneRet.outcome,
                             !.submitted = sceneRet.submitted]
         /\ sceneWrote' = IF compose(scenes, ffmpegFails).threw THEN {}
                          ELSE {ComposedFile}
         /\ sceneFiles' = sceneFiles \cup sceneWrote'
    /\ sceneOp' = "compose"
    /\ UNCHANGED <<scenes, segVars, adjVars, fileVars, syncVars, idVars, clipVars, jobVars>>

(***************************************************************************)
(* Persisted multi-clip job: check-and-upload (pipeline/split-script        *)
(* route.ts POST, handleMultiClipCheck) and the clip-status route; clips,  *)
(* storage, narration and provider are the job's                           *)
(***************************************************************************)
\* check-and-upload requests that can be in flight at once
Drivers == {1, 2}

\* the render and merge entries of a job's MultiClipStep list (the entries
\* before them are completed by the pipeline)
NoSteps == [render |-> "pending", merge |-> "pending"]

\* updateStep(steps, stepId, {status})
updateStep(steps, stepId, status) == [steps EXCEPT ![stepId] = status]

NoJob ==
    [status |-> "none", brewJobId |-> FALSE, videoProvider |-> NoId,
     autoUpload |-> FALSE, audioUrl |-> FALSE, errorMessage |-> "none",
     steps |-> NoSteps]

IdleTick == [pc |-> "idle", clips |-> <<>>, steps |-> NoSteps]

JobIdle ==
    /\ job = NoJob
    /\ ticks = [d \in Drivers |-> IdleTick]
    /\ asked = <<>>
    /\ pipeline = "idle"
    /\ merged = <<>>

\* the clip length of the pipeline's sections, tenths of a second; the
\* requests for a persisted job do not read a clip's duration
CLIP_DURATION == 100

\* the job as the pipeline writes it before it requests the videos: status
\* render, the initialized clips, the narration's audioUrl, no brewJobId and
\* no videoProvider
JobInit ==
    /\ provider \in Providers
    /\ \E n \in 1..MaxClips :
         /\ clips = generateClipPrompts(
                      initializeClipsFromSections([k \in 1..n |-> CLIP_DURATION]))
         /\ storage = [k \in 1..n |-> 0]
    /\ reqRet = {}
    /\ narration \in NarrationDurations
    /\ lastOp = "init"
    /\ pollRet = NoPollRet
    /\ inverted = FALSE
    /\ mergeRet = NoMergeRet
    /\ job \in [status : {"render"}, brewJobId : {FALSE}, videoProvider : {NoId},
                autoUpload : BOOLEAN, audioUrl : {TRUE}, errorMessage : {"none"},
                steps : {updateStep(NoSteps, "render", "processing")}]
    /\ ticks = [d \in Drivers |-> IdleTick]
    /\ asked = <<>>
    /\ pipeline = "submitting"
    /\ merged = <<>>

\* the pipeline from requestClipVideos to the write of brewJobId and clips
PipelineSubmit ==
    /\ pipeline = "submitting"
    /\ \E submitted \in SUBSET (1..Len(clips)) :
         /\ clips' = requestClipVideos(clips, provider, submitted)
         /\ reqRet' = submitted
    /\ lastOp' = "request"
    /\ job' = [job EXCEPT !.brewJobId = TRUE]
    /\ pipeline' = "done"
    /\ UNCHANGED <<provider, narration, storage, pollRet, inverted, mergeRet, ticks,
                   asked, merged, segVars, adjVars, fileVars, syncVars, idVars, sceneVars>>

\* the server process dies while the pipeline is requesting the videos:
\* data/jobs.json stays as it was last written and the clips in memory are
\* lost (a check-and-upload request that dies is one that takes no more steps)
Crash ==
    /\ pipeline = "submitting"
    /\ pipeline' = "crashed"
    /\ UNCHANGED <<job, ticks, asked, merged, segVars, adjVars, fileVars, syncVars, idVars, clipVars, sceneVars>>

\* the provider whose status endpoint checkAndDownloadClips calls for a job id
\* (jobId.startsWith('veo|'))
ProviderOf(jobId) == IF jobId[1] = "veo" THEN "veo" ELSE "higgsfield"

\* the provider the clip-status route calls: job.videoProvider || 'veo'
StatusProvider(j) == IF j.videoProvider = NoId THEN "veo" ELSE j.videoProvider

\* the outcomes of one status query of the persisted job; every video its
\* provider delivers is 8 s long
JobOutcomes == {o \in PollOutcomes : o.kind = "completed" => o.dur = 80}

\* what handleMultiClipCheck does once the clips are polled: wait while a clip
\* is pending, fail when any clip failed
RenderVerdict_FailsOnAnyFailure(cl) ==
    IF \E k \in 1..Len(cl) : cl[k].status \in {"processing", "pending"} THEN "wait"
    ELSE IF \E k \in 1..Len(cl) : cl[k].status = "failed" THEN "failed"
    ELSE "merge"

\* RenderVerdict without the completedCount === 0 branch
RenderVerdict_MergesWhenNoneCompleted(cl) ==
    IF \E k \in 1..Len(cl) : cl[k].status \in {"processing", "pending"} THEN "wait"
    ELSE "merge"

\* RenderVerdict that counts a failed clip as still pending
RenderVerdict_WaitsForFailed(cl) ==
    IF \E k \in 1..Len(cl) : cl[k].status # "completed" THEN "wait"
    ELSE "merge"

\* what handleMultiClipCheck does once the clips are polled: wait while a clip
\* is pending, fail when no clip completed, merge otherwise
RenderVerdict(cl) ==
    IF \E k \in 1..Len(cl) : cl[k].status \in {"processing", "pending"} THEN "wait"
    ELSE IF \A k \in 1..Len(cl) : cl[k].status # "completed" THEN "failed"
    ELSE "merge"

\* the environments of the merge of one check-and-upload request: the
\* narration's path is always passed, and ffprobe answers
JobMergeEnvs(cl) ==
    {env \in MergeEnvs(cl) :
        env.audioGiven /\ ~env.audioProbeFails /\ env.videoProbeFails = {}}

\* the status checks of POST check-and-upload without the test for a status
\* other than render
PassesStatusCheck_OnlyTerminal(j) ==
    j.status \notin {"completed", "failed"} /\ j.brewJobId

\* the status checks of POST check-and-upload: the request goes on to poll
\* only for a job in render that has a brewJobId
PassesStatusCheck(j) == j.status = "render" /\ j.brewJobId

\* a request that returned at the status checks
RefusedTick == [pc |-> "refused", clips |-> <<>>, steps |-> NoSteps]

\* POST check-and-upload up to its first provider call: getJob, the status
\* checks, and handleMultiClipCheck's copy of job.clips
CheckAndUpload ==
    /\ \E d \in Drivers :
         /\ ticks[d].pc \in {"idle", "refused"}
         /\ ticks' = [ticks EXCEPT ![d] =
                         IF PassesStatusCheck(job)
                         THEN [pc |-> "poll", clips |-> clips, steps |-> job.steps]
                         ELSE RefusedTick]
    /\ UNCHANGED <<job, asked, pipeline, merged, segVars, adjVars, fileVars, syncVars, idVars, clipVars, sceneVars>>

\* handleMultiClipCheck from checkAndDownloadClips to the status it writes
\* before merging
HandleMultiClipCheck ==
    /\ \E d \in Drivers :
         /\ ticks[d].pc = "poll"
         /\ LET cl == ticks[d].clips IN
            \E r \in [1..Len(cl) -> JobOutcomes] :
              /\ \A k \in 1..Len(cl) : k \notin Queried(cl) => r[k] = NoOutcome
              /\ LET ret == checkAndDownloadClips(cl, r)
                     downloaded == {k \in Queried(cl) : r[k].kind = "completed"}
                     verdict == RenderVerdict(ret.clips)
                     steps == IF verdict = "wait" THEN ticks[d].steps
                              ELSE IF verdict = "failed"
                              THEN updateStep(ticks[d].steps, "render", "failed")
                              ELSE updateStep(updateStep(ticks[d].steps, "render",
                                                         "completed"),
                                              "merge", "processing")
                 IN  /\ asked' = [k \in Queried(cl) |->
                                     ProviderOf(cl[k].jobId)]
                     /\ storage' = [k \in 1..Len(cl) |->
                                       IF k \in downloaded THEN r[k].dur ELSE storage[k]]
                     /\ clips' = ret.clips
                     /\ job' = IF verdict = "wait" THEN job
                               ELSE IF verdict = "failed"
                               THEN [job EXCEPT !.status = "failed",
                                                !.errorMessage = "clips",
                                                !.steps = steps]
                               ELSE [job EXCEPT !.status = "merge", !.steps = steps]
                     /\ ticks' = [ticks EXCEPT ![d] =
                                     IF verdict = "merge"
                                     THEN [pc |-> "merge", clips |-> ret.clips,
                                           steps |-> steps]
                                     ELSE IdleTick]
    /\ UNCHANGED <<provider, narration, lastOp, reqRet, pollRet, inverted, mergeRet,
                   pipeline, merged, segVars, adjVars, fileVars, syncVars, idVars, sceneVars>>

\* handleMultiClipCheck from mergeClipsIntoVideo to its last status write;
\* uploadOk is whether uploadToYoutube returns. Only the write that ends a
\* job without autoUpload carries the clips and the steps
MergeAndUpload ==
    /\ \E d \in Drivers :
         /\ ticks[d].pc = "merge"
         /\ \E env \in JobMergeEnvs(ticks[d].clips) : \E uploadOk \in BOOLEAN :
              /\ job.autoUpload \/ uploadOk
              /\ LET result == IF job.audioUrl
                               THEN mergeClipsIntoVideo(ticks[d].clips, narration,
                                                        storage, env)
                               ELSE MergeThrew
                 IN  /\ mergeRet' = [called |-> TRUE, env |-> env, result |-> result]
                     /\ merged' = ticks[d].clips
                     /\ result.threw => uploadOk
                     /\ job' = IF result.threw
                               THEN [job EXCEPT !.status = "failed",
                                                !.errorMessage = "merge"]
                               ELSE IF job.autoUpload /\ ~uploadOk
                               THEN [job EXCEPT !.status = "failed",
                                                !.errorMessage = "upload"]
                               ELSE IF job.autoUpload
                               THEN [job EXCEPT !.status = "completed"]
                               ELSE [job EXCEPT
                                        !.status = "completed",
                                        !.steps = updateStep(ticks[d].steps, "merge",
                                                             "completed")]
                     /\ clips' = IF result.threw \/ job.autoUpload THEN clips
                                 ELSE ticks[d].clips
         /\ ticks' = [ticks EXCEPT ![d] = IdleTick]
    /\ UNCHANGED <<provider, narration, storage, lastOp, reqRet, pollRet,
                   inverted, asked, pipeline, segVars, adjVars, fileVars, syncVars, idVars, sceneVars>>

\* POST merge (the manual merge endpoint): merges the completed clips of the
\* persisted job, whatever the status of the job and of its other clips
MergeRoute ==
    /\ job.status # "none"
    /\ Len(clips) > 0
    /\ \E k \in 1..Len(clips) : IsCompletedWithUrl(clips[k])
    /\ \E env \in JobMergeEnvs(clips) :
         LET result == mergeClipsIntoVideo(clips, narration, storage, env)
         IN  /\ mergeRet' = [called |-> TRUE, env |-> env, result |-> result]
             /\ merged' = clips
             /\ job' = IF result.threw THEN job
                       ELSE [job EXCEPT !.status = IF job.autoUpload THEN "upload"
                                                   ELSE "completed"]
    /\ UNCHANGED <<clips, provider, narration, storage, lastOp, reqRet, pollRet,
                   inverted, ticks, asked, pipeline, segVars, adjVars, fileVars,
                   syncVars, idVars, sceneVars>>

\* what a status query answers for a job id the asked provider did not issue:
\* a non-ok response (the call throws) or an error body (failed)
ForeignOutcomes == {[kind |-> k, dur |-> 0] : k \in {"throws", "failed"}}

\* GET clip-status: polls every unsettled clip of the persisted job at
\* job.videoProvider || 'veo' and saves the clips
ClipStatus ==
    /\ job.status # "none"
    /\ LET videoProvider == StatusProvider(job) IN
       \E r \in [1..Len(clips) -> JobOutcomes] :
         /\ \A k \in 1..Len(clips) : k \notin Queried(clips) => r[k] = NoOutcome
         /\ \A k \in Queried(clips) :
               clips[k].jobId[1] # videoProvider => r[k] \in ForeignOutcomes
         /\ LET downloaded == {k \in Queried(clips) : r[k].kind = "completed"} IN
            /\ asked' = [k \in Queried(clips) |-> videoProvider]
            /\ storage' = [k \in 1..Len(clips) |->
                              IF k \in downloaded THEN r[k].dur ELSE storage[k]]
            /\ clips' = checkAndDownloadClips(clips, r).clips
    /\ UNCHANGED <<job, ticks, pipeline, merged, provider, narration, lastOp, reqRet, pollRet,
                   inverted, mergeRet, segVars, adjVars, fileVars, syncVars, idVars, sceneVars>>

(***************************************************************************)
(* Job store (lib/jobs.ts): data/jobs.json and updateJobStatus             *)
(***************************************************************************)
\* the jobs of data/jobs.json
JobIds == {"a", "b"}

\* the fields of a job that updateJobStatus calls write
JobFields == {"status", "clips"}

\* the updateJobStatus calls in flight; call c writes the value c
Callers == {1, 2}

NoCall == [pc |-> "idle", id |-> "a", updates |-> <<>>, jobs |-> <<>>]

FileIdle ==
    /\ jobsFile = <<>>
    /\ calls = <<>>

\* both jobs were created (every field 0) and no call has started
FileInit ==
    /\ jobsFile = [id \in JobIds |-> [f \in JobFields |-> 0]]
    /\ calls = [c \in Callers |-> NoCall]

\* {...jobs[index], ...updates}
updatedJob(old, updates) ==
    [f \in JobFields |-> IF f \in DOMAIN updates THEN updates[f] ELSE old[f]]

\* updateJobStatus up to the return of readJobsFile: the call holds the whole
\* file as it was read
ReadJobsFile ==
    /\ \E c \in Callers : \E id \in JobIds : \E fields \in SUBSET JobFields :
         /\ calls[c].pc = "idle"
         /\ fields # {}
         /\ calls' = [calls EXCEPT ![c] =
                         [pc |-> "read", id |-> id, updates |-> [f \in fields |-> c],
                          jobs |-> jobsFile]]
    /\ UNCHANGED <<jobsFile, segVars, adjVars, clipVars, sceneVars, jobVars, syncVars,
                   idVars>>

\* updateJobStatus from the merge of the updates to writeJobsFile, which
\* rewrites the whole file from the jobs the call read
WriteJobsFile ==
    /\ \E c \in Callers :
         /\ calls[c].pc = "read"
         /\ jobsFile' = [calls[c].jobs EXCEPT ![calls[c].id] =
                            updatedJob(calls[c].jobs[calls[c].id], calls[c].updates)]
         /\ calls' = [calls EXCEPT ![c].pc = "done"]
    /\ UNCHANGED <<segVars, adjVars, clipVars, sceneVars, jobVars, syncVars, idVars>>

(***************************************************************************)
(* Concurrent mergeVideosWithAudioSync calls (lib/ffmpeg)                  *)
(***************************************************************************)
\* the jobs merged at the same time; both outputs go to public/videos, so
\* both calls use public/videos/tmp_sync_merge
MergeJobs == {1, 2}

\* an absent clips.txt
NoListFile == [job |-> 0, filler |-> FALSE]

\* an absent file, and what a call that has not run ffmpeg has read
NoRead == [list |-> 0, filler |-> 0]

EmptyTmpDir == [exists |-> FALSE, list |-> NoListFile, filler |-> 0]

SyncIdle ==
    /\ tmpDir = EmptyTmpDir
    /\ merges = <<>>

\* short: the job's clips are shorter than its narration, so the call makes
\* a filler
SyncInit ==
    /\ tmpDir = EmptyTmpDir
    /\ merges \in [MergeJobs -> [pc : {"start"}, short : BOOLEAN, threw : {FALSE},
                                 read : {NoRead}]]

\* fs.mkdir(tmpDir, {recursive: true})
MakeTmpDir ==
    /\ \E m \in MergeJobs :
         /\ merges[m].pc = "start"
         /\ tmpDir' = [tmpDir EXCEPT !.exists = TRUE]
         /\ merges' = [merges EXCEPT ![m].pc = "made"]
    /\ UNCHANGED <<segVars, adjVars, clipVars, sceneVars, jobVars, fileVars, idVars>>

\* createFillerFromLastFrame(lastVideoPath, tmpDir/filler.mp4): ffmpeg writes
\* the filler of this job, or fails when the directory is gone
CreateFillerFromLastFrame ==
    /\ \E m \in MergeJobs :
         /\ merges[m].pc = "made"
         /\ merges[m].short
         /\ IF tmpDir.exists
            THEN /\ tmpDir' = [tmpDir EXCEPT !.filler = m]
                 /\ merges' = [merges EXCEPT ![m].pc = "filled"]
            ELSE /\ tmpDir' = tmpDir
                 /\ merges' = [merges EXCEPT ![m].pc = "ran", ![m].threw = TRUE]
    /\ UNCHANGED <<segVars, adjVars, clipVars, sceneVars, jobVars, fileVars, idVars>>

\* fs.writeFile(tmpDir/clips.txt, listContent): the list names this job's
\* clips and, when a filler was made, tmpDir/filler.mp4
WriteListFile ==
    /\ \E m \in MergeJobs :
         /\ \/ merges[m].pc = "filled"
            \/ merges[m].pc = "made" /\ ~merges[m].short
         /\ IF tmpDir.exists
            THEN /\ tmpDir' = [tmpDir EXCEPT !.list = [job |-> m, filler |-> merges[m].short]]
                 /\ merges' = [merges EXCEPT ![m].pc = "listed"]
            ELSE /\ tmpDir' = tmpDir
                 /\ merges' = [merges EXCEPT ![m].pc = "ran", ![m].threw = TRUE]
    /\ UNCHANGED <<segVars, adjVars, clipVars, sceneVars, jobVars, fileVars, idVars>>

\* ffmpeg -f concat -i tmpDir/clips.txt: reads the list that is there now and
\* the files it names; fails when the list or a file it names is missing
ExecConcat ==
    /\ \E m \in MergeJobs :
         /\ merges[m].pc = "listed"
         /\ LET missing == \/ tmpDir.list.job = 0
                           \/ tmpDir.list.filler /\ tmpDir.filler = 0
            IN  merges' = [merges EXCEPT
                    ![m].pc = "ran",
                    ![m].threw = missing,
                    ![m].read = IF missing THEN NoRead
                                ELSE [list |-> tmpDir.list.job,
                                      filler |-> IF tmpDir.list.filler
                                                 THEN tmpDir.filler ELSE 0]]
    /\ UNCHANGED <<tmpDir, segVars, adjVars, clipVars, sceneVars, jobVars, fileVars,
                   idVars>>

\* finally: fs.rm(tmpDir, {recursive: true, force: true})
RemoveTmpDir ==
    /\ \E m \in MergeJobs :
         /\ merges[m].pc = "ran"
         /\ tmpDir' = EmptyTmpDir
         /\ merges' = [merges EXCEPT ![m].pc = "done"]
    /\ UNCHANGED <<segVars, adjVars, clipVars, sceneVars, jobVars, fileVars, idVars>>

(***************************************************************************)
(* The composite job identifier (brewJobId); a string is the sequence of   *)
(* its tokens, "|", "," and "." being tokens of their own                  *)
(***************************************************************************)
\* the ids a provider gives to its requests
RequestIds == {"x", "y"}

\* the model names of the pipeline
ModelNames == {"m1", "m2"}

\* narration lengths as ffprobe prints them: 60, 23.4 and 8.25 seconds
AudioDurationStrings ==
    {[int |-> "60", frac |-> ""], [int |-> "23", frac |-> "4"],
     [int |-> "8", frac |-> "25"]}

\* requestHiggsfieldVideo: `higgsfield|${requestId}`
requestHiggsfieldVideo(requestId) == <<"higgsfield", "|", requestId>>

\* requestVeoVideo: `veo|${operationName}`
requestVeoVideo(operationName) == <<"veo", "|", operationName>>

\* the job id the adapter of prov returns for request id
AdapterJobId(prov, id) ==
    IF prov = "veo" THEN requestVeoVideo(id) ELSE requestHiggsfieldVideo(id)

\* `${number}`
NumberToString(d) == IF d.frac = "" THEN <<d.int>> ELSE <<d.int, ".", d.frac>>

\* parseInt(str, 10): the digits before the first token that is not a digit
parseInt(str) ==
    IF str = <<>> \/ Head(str) \in {"|", ",", "."} THEN [int |-> "NaN", frac |-> ""]
    ELSE [int |-> Head(str), frac |-> ""]

\* Array.prototype.join(sep)
RECURSIVE Join(_, _)
Join(strs, sep) ==
    IF strs = <<>> THEN <<>>
    ELSE IF Len(strs) = 1 THEN strs[1]
    ELSE strs[1] \o <<sep>> \o Join(Tail(strs), sep)

\* String.prototype.split(sep): cur is the part read so far
RECURSIVE SplitFrom(_, _, _)
SplitFrom(str, sep, cur) ==
    IF str = <<>> THEN <<cur>>
    ELSE IF Head(str) = sep THEN <<cur>> \o SplitFrom(Tail(str), sep, <<>>)
    ELSE SplitFrom(Tail(str), sep, Append(cur, Head(str)))

StringSplit(str, sep) == SplitFrom(str, sep, <<>>)

\* Array.prototype.filter(Boolean) on strings: drops the empty ones
FilterNonEmpty(strs) == SelectSeq(strs, LAMBDA s : s # <<>>)

\* the pipeline's brewJobId:
\* `multiclip|${provider}|${selectedModel}|${audioDuration}|${jobIds}` with
\* jobIds = clips.map(c => c.jobId).filter(Boolean).join(',')
brewJobIdOf(in) ==
    <<"multiclip", "|", in.provider, "|", in.model, "|">>
    \o NumberToString(in.duration) \o <<"|">>
    \o Join(FilterNonEmpty(in.jobIds), ",")

NoParse ==
    [ok |-> FALSE, provider |-> <<>>, model |-> <<>>,
     duration |-> [int |-> "NaN", frac |-> ""], jobIds |-> <<>>]

\* handleMultiClipCheck's parse of job.brewJobId
parseBrewJobId(brewJobId) ==
    LET parts == StringSplit(brewJobId, "|") IN
    IF Len(parts) < 5 THEN NoParse
    ELSE [ok |-> TRUE, provider |-> parts[2], model |-> parts[3],
          duration |-> parseInt(parts[4]),
          jobIds |-> FilterNonEmpty(StringSplit(parts[5], ","))]

\* the job ids of the clips of one pipeline run: every submitted clip has the
\* id its adapter returned
JobIdLists(prov) ==
    UNION {[1..n -> {AdapterJobId(prov, id) : id \in RequestIds}] : n \in 0..MaxClips}

IdIdle ==
    /\ idIn = <<>>
    /\ idOut = [called |-> FALSE, brewJobId |-> <<>>, parsed |-> NoParse]

IdInit ==
    /\ \E prov \in Providers :
         idIn \in [provider : {prov}, model : ModelNames,
                   duration : AudioDurationStrings, jobIds : JobIdLists(prov)]
    /\ idOut = [called |-> FALSE, brewJobId |-> <<>>, parsed |-> NoParse]

\* the pipeline builds brewJobId and a check-and-upload request parses it
BuildAndParse ==
    /\ ~idOut.called
    /\ idOut' = [called |-> TRUE, brewJobId |-> brewJobIdOf(idIn),
                 parsed |-> parseBrewJobId(brewJobIdOf(idIn))]
    /\ UNCHANGED <<idIn, segVars, adjVars, clipVars, sceneVars, jobVars, fileVars,
                   syncVars>>

(***************************************************************************)
(* Specifications                                                          *)
(***************************************************************************)
\* a job runs either the multi-clip pipeline or the per-scene pipeline
Init ==
    /\ SegIdle
    /\ AdjIdle
    /\ JobIdle
    /\ FileIdle
    /\ SyncIdle
    /\ IdIdle
    /\ \/ ClipInit /\ SceneIdle
       \/ ClipIdle /\ SceneInit

Next ==
    \/ RequestClipVideos
    \/ CheckAndDownloadClips
    \/ MergeClipsIntoVideo
    \/ RequestVideos
    \/ CheckAndDownloadVideos
    \/ AdjustAllScenes
    \/ RegenerateScene
    \/ Compose

Spec == Init /\ [][Next]_vars

InitSeg ==
    SegInit /\ AdjIdle /\ ClipIdle /\ SceneIdle /\ JobIdle /\ FileIdle /\ SyncIdle /\ IdIdle

SegNext == Split

SpecSeg == InitSeg /\ [][SegNext]_vars

InitAdj ==
    AdjInit /\ SegIdle /\ ClipIdle /\ SceneIdle /\ JobIdle /\ FileIdle /\ SyncIdle /\ IdIdle

AdjNext == AdjustScene

SpecAdj == InitAdj /\ [][AdjNext]_vars

InitJob == SegIdle /\ AdjIdle /\ SceneIdle /\ JobInit /\ FileIdle /\ SyncIdle /\ IdIdle

JobNext ==
    \/ PipelineSubmit
    \/ Crash
    \/ CheckAndUpload
    \/ HandleMultiClipCheck
    \/ MergeAndUpload
    \/ ClipStatus

SpecJob == InitJob /\ [][JobNext]_vars

JobLiveNext ==
    \/ PipelineSubmit
    \/ CheckAndUpload
    \/ HandleMultiClipCheck
    \/ MergeAndUpload
    \/ ClipStatus

\* the process does not crash, the job page posts check-and-upload every ten
\* seconds while the job is in render, and a request that was received runs
\* to its end
SpecJobLive ==
    /\ InitJob
    /\ [][JobLiveNext]_vars
    /\ WF_vars(PipelineSubmit)
    /\ WF_vars(CheckAndUpload)
    /\ WF_vars(HandleMultiClipCheck)
    /\ WF_vars(MergeAndUpload)

\* a check-and-upload request whose status calls all return completed (and
\* the download succeeds) or failed
SettlingTick ==
    /\ HandleMultiClipCheck
    /\ \A k \in 1..Len(clips') : IsSettled(clips'[k])

\* the pipeline request and the check-and-upload requests of one job
JobSettlesNext ==
    \/ PipelineSubmit
    \/ CheckAndUpload
    \/ HandleMultiClipCheck
    \/ MergeAndUpload

\* the process does not crash, the job page posts check-and-upload every ten
\* seconds while the job is in render, a request that was received runs to
\* its end, and every submitted provider job eventually reports completed or
\* failed: the providers do not answer pending or processing for ever
SpecJobSettles ==
    /\ InitJob
    /\ [][JobSettlesNext]_vars
    /\ WF_vars(PipelineSubmit)
    /\ WF_vars(CheckAndUpload)
    /\ WF_vars(HandleMultiClipCheck)
    /\ WF_vars(MergeAndUpload)
    /\ SF_vars(SettlingTick)

\* the pipeline request, the check-and-upload requests and the manual merge
\* requests of one job
JobMergeNext == JobSettlesNext \/ MergeRoute

SpecJobMerge == InitJob /\ [][JobMergeNext]_vars

InitStore ==
    /\ SegIdle /\ AdjIdle /\ ClipIdle /\ SceneIdle /\ JobIdle
    /\ FileInit /\ SyncIdle /\ IdIdle

StoreNext == ReadJobsFile \/ WriteJobsFile

SpecStore == InitStore /\ [][StoreNext]_vars

InitSync ==
    /\ SegIdle /\ AdjIdle /\ ClipIdle /\ SceneIdle /\ JobIdle
    /\ FileIdle /\ SyncInit /\ IdIdle

SyncNext ==
    \/ MakeTmpDir
    \/ CreateFillerFromLastFrame
    \/ WriteListFile
    \/ ExecConcat
    \/ RemoveTmpDir

SpecSync == InitSync /\ [][SyncNext]_vars

InitId ==
    /\ SegIdle /\ AdjIdle /\ ClipIdle /\ SceneIdle /\ JobIdle
    /\ FileIdle /\ SyncIdle /\ IdInit

IdNext == BuildAndParse

SpecId == InitId /\ [][IdNext]_vars

(***************************************************************************)
(* Properties of the Segmenter                                             *)
(***************************************************************************)
SegSum == SumSeq(SectionDurations(segOut.sections))

SegInRange ==
    \A k \in 1..Len(segOut.sections) :
        /\ segOut.sections[k].duration >= segIn.minDuration
        /\ segOut.sections[k].duration <= segIn.maxDuration

\* the second clamp of splitScriptWithDurations leaves every rescaled
\* duration as it is
NoFinalClamp ==
    LET raw == RawSections(segIn)
        total == SumSeq(SectionDurations(raw))
    IN  \A k \in 1..Len(raw) :
            /\ raw[k].duration * segIn.audioDuration >= segIn.minDuration * total
            /\ raw[k].duration * segIn.audioDuration <= segIn.maxDuration * total

\* C5 as stated: for every script with at least one sentence the section
\* durations sum to within 1 s of the audio duration and each lies in
\* [min, max]
C5_SumWithinOneSecond ==
    (segOut.called /\ Len(splitIntoSentences(segIn.script)) >= 1) =>
        /\ Abs(SegSum - segIn.audioDuration) <= 10
        /\ SegInRange

\* C5 amended: every section duration lies in [min, max]; when the final
\* clamp changes no section, the sum differs from the audio duration by at
\* most 0.05 s per section (the rounding to one decimal)
C5_RangeAndSumUnlessClamped ==
    (segOut.called /\ Len(splitIntoSentences(segIn.script)) >= 1) =>
        /\ SegInRange
        /\ Len(segOut.sections) >= 1
        /\ NoFinalClamp =>
               2 * Abs(SegSum - segIn.audioDuration) <= Len(segOut.sections)

C5_Witness ==
    /\ segOut.called
    /\ Len(segOut.sections) >= 2
    /\ NoFinalClamp
    /\ SegSum # segIn.audioDuration

ScenarioInput ==
    [script |-> ScenarioScript, audioDuration |-> 180, targetClipDuration |-> 80,
     minDuration |-> 40, maxDuration |-> 100]

\* C6: "A. B. C." with 18 s of audio, target 8, min 4, max 10 gives 2 or 3
\* sections whose durations sum to 18 s within 1 s
C6_ScenarioSections ==
    (segOut.called /\ segIn = ScenarioInput) =>
        /\ Len(segOut.sections) \in {2, 3}
        /\ Abs(SegSum - 180) <= 10

(***************************************************************************)
(* Properties of the Duration Adjuster                                     *)
(***************************************************************************)
AdjDelta == adjIn.audioDurationMs - adjIn.videoDurationMs

AdjReturned == adjOut.called /\ ~adjOut.threw

\* C7: the strategy is the stated total function of delta, boundaries
\* included: none below 500 in magnitude, freeze on [500, 2000], ken_burns on
\* (2000, 4000], loop above 4000, trim at -500 and below
C7_StrategyTable ==
    AdjReturned =>
        /\ (Abs(AdjDelta) < 500 => adjOut.adjustmentType = "none")
        /\ (500 <= AdjDelta /\ AdjDelta <= 2000 => adjOut.adjustmentType = "freeze")
        /\ (2000 < AdjDelta /\ AdjDelta <= 4000 => adjOut.adjustmentType = "ken_burns")
        /\ (AdjDelta > 4000 => adjOut.adjustmentType = "loop")
        /\ (AdjDelta <= -500 => adjOut.adjustmentType = "trim")

C7_Witness ==
    /\ AdjReturned
    /\ AdjDelta = 2000
    /\ adjOut.adjustmentType = "freeze"

\* C8 as stated: below 500 ms of difference adjust returns none and the
\* clip's own duration, dubbed or not
C8_NoneKeepsDuration ==
    (AdjReturned /\ Abs(AdjDelta) < 500) =>
        /\ adjOut.adjustmentType = "none"
        /\ adjOut.finalDurationMs = adjIn.videoDurationMs

\* C8 amended: below 500 ms of difference adjust returns none; the final
\* duration is the clip's own when no narration is dubbed, and the shorter of
\* the clip and the narration file when it is
C8_NoneKeepsDurationUnlessDubbed ==
    (AdjReturned /\ Abs(AdjDelta) < 500) =>
        /\ adjOut.adjustmentType = "none"
        /\ ~adjOut.dubbed => adjOut.finalDurationMs = adjIn.videoDurationMs
        /\ adjOut.dubbed =>
               adjOut.finalDurationMs = Min2(adjIn.videoDurationMs, adjIn.audioFileMs)

C8_Witness ==
    /\ AdjReturned
    /\ Abs(AdjDelta) < 500
    /\ adjOut.dubbed
    /\ adjOut.finalDurationMs < adjIn.videoDurationMs

(***************************************************************************)
(* Properties of the Merger                                                *)
(***************************************************************************)
MergeResult == mergeRet.result

\* positions of the clips that completed with a video URL
CompletedSet == {k \in 1..Len(clips) : IsCompletedWithUrl(clips[k])}

\* the concatenation list without the filler
RealClipPaths == SelectSeq(MergeResult.concatList, LAMBDA p : p # FillerPath)

\* C1: a merge of a clip array without any completed clip throws and leaves
\* no output, with or without an audio path; mergeVideosWithAudioSync and
\* mergeVideos throw on an empty path list
C1_MergeWithoutClipsFails ==
    (mergeRet.called /\ CompletedSet = {}) =>
        /\ MergeResult.threw
        /\ ~MergeResult.hasOutput
        /\ MergeResult.concatList = <<>>
        /\ \A env \in MergeEnvs(clips) :
              /\ mergeVideosWithAudioSync(<<>>, narration, storage, env).threw
              /\ ~mergeVideosWithAudioSync(<<>>, narration, storage, env).hasOutput

C1_Witness ==
    /\ mergeRet.called
    /\ mergeRet.env.fails = "none"
    /\ CompletedSet = {}
    /\ \E k \in 1..Len(clips) : clips[k].status = "failed"
    /\ \E k \in 1..Len(clips) : clips[k].status = "processing"
    /\ MergeResult.threw

\* C2: every merge with at least one completed clip that writes an output
\* gives it the narration's duration, whatever failed and whatever the
\* completed clips sum to
C2_OutputEqualsNarration ==
    (mergeRet.called /\ CompletedSet # {} /\ MergeResult.hasOutput) =>
        MergeResult.outputDuration = narration

\* positions of the scenes TimelineComposer.compose accepts
ValidSceneSet == {k \in 1..Len(scenes) : IsValidScene(scenes[k])}

\* C3: the clips handed to concatenation are exactly the completed clips with
\* a video URL, each once, in strictly ascending index order, whatever the
\* order in which polling completed them; likewise the scenes that
\* TimelineComposer.compose concatenates are exactly the completed or
\* adjusted scenes with a video, in strictly ascending id order
C3_ConcatInIndexOrder ==
    /\ sceneRet.composed =>
        /\ Len(sceneRet.list) = Cardinality(ValidSceneSet)
        /\ \A i \in 1..Len(sceneRet.list) :
              /\ sceneRet.list[i][2] \in ValidSceneSet
              /\ sceneRet.list[i] = ScenePathOf(scenes[sceneRet.list[i][2]])
        /\ \A i, j \in 1..Len(sceneRet.list) :
              i < j => scenes[sceneRet.list[i][2]].id < scenes[sceneRet.list[j][2]].id
    /\ (mergeRet.called /\ MergeResult.concatList # <<>>) =>
        /\ \A i \in 1..Len(RealClipPaths) :
              /\ Len(RealClipPaths[i]) = 3
              /\ RealClipPaths[i][3] \in CompletedSet
              /\ RealClipPaths[i] = ClipPath(clips[RealClipPaths[i][3]].videoUrl)
        /\ \A i, j \in 1..Len(RealClipPaths) :
              i < j => clips[RealClipPaths[i][3]].index < clips[RealClipPaths[j][3]].index
        /\ Len(RealClipPaths) = Cardinality(CompletedSet)

C3_Witness ==
    /\ mergeRet.called
    /\ inverted
    /\ Len(RealClipPaths) >= 2
    /\ MergeResult.hasOutput

\* the narration length as mergeVideosWithAudioSync measures it
MeasuredNarration ==
    IF mergeRet.env.audioProbeFails THEN DefaultAudioDuration ELSE narration

\* the sum of the completed clips' lengths as the merge probes them
ProbedLength(k) == IF k \in mergeRet.env.videoProbeFails THEN 0 ELSE storage[k]

RECURSIVE ProbedSum(_)
ProbedSum(S) ==
    IF S = {} THEN 0
    ELSE LET k == CHOOSE j \in S : TRUE IN ProbedLength(k) + ProbedSum(S \ {k})

ProbedTotal == ProbedSum(CompletedSet)

LastCompleted == CHOOSE k \in CompletedSet : \A j \in CompletedSet : j <= k

AllSettled(cl) == \A k \in 1..Len(cl) : IsSettled(cl[k])

IsSettledScene(sc) == sc.videoStatus \in {"completed", "failed"}

\* C9: a polling tick leaves every clip that is completed or failed as it is,
\* does not query its provider and does not download it again; on an array
\* whose clips are all settled it returns the same array and allCompleted.
\* SceneManager.checkAndDownloadVideos treats completed and failed scenes the
\* same way
C9_SettledClipsUntouched ==
    [][/\ lastOp' = "poll" =>
          /\ \A k \in 1..Len(clips) :
                IsSettled(clips[k]) =>
                    /\ clips'[k] = clips[k]
                    /\ storage'[k] = storage[k]
                    /\ k \notin pollRet'.queried
          /\ AllSettled(clips) => (clips' = clips /\ pollRet'.allCompleted)
       /\ sceneOp' = "poll" =>
          /\ \A k \in 1..Len(scenes) :
                IsSettledScene(scenes[k]) =>
                    /\ scenes'[k] = scenes[k]
                    /\ k \notin sceneRet'.queried
          /\ (\A k \in 1..Len(scenes) : IsSettledScene(scenes[k])) =>
                scenes' = scenes]_vars

C9_Witness ==
    /\ lastOp = "poll"
    /\ AllSettled(clips)
    /\ pollRet.queried = {}
    /\ pollRet.allCompleted
    /\ \E k \in 1..Len(clips) : clips[k].status = "completed"
    /\ \E k \in 1..Len(clips) : clips[k].status = "failed" /\ clips[k].jobId # NoId

\* C10: a polling tick returns allCompleted exactly when no returned clip is
\* pending or processing
C10_AllSettledIffNonePending ==
    lastOp = "poll" => (pollRet.allCompleted <=> AllSettled(clips))

(***************************************************************************)
(* Properties of the request step                                          *)
(***************************************************************************)
\* C11: after requestClipVideos every clip whose submit call failed is
\* failed and otherwise as it was, and every other clip, whichever clips
\* failed before it, is processing with the job id its provider issued; the
\* same holds for the scenes after SceneManager.requestVideos, with
\* generating for processing
C11_SubmitFailureIsLocal ==
    /\ lastOp = "request" =>
          \A k \in 1..Len(clips) :
              /\ k \in reqRet =>
                    /\ clips[k].status = "processing"
                    /\ clips[k].jobId = <<provider, k>>
              /\ k \notin reqRet =>
                    /\ clips[k].status = "failed"
                    /\ clips[k].jobId = NoId
                    /\ clips[k].videoUrl = NoId
    /\ sceneOp = "request" =>
          \A k \in 1..Len(scenes) :
              /\ k \in sceneRet.submitted =>
                    /\ scenes[k].videoStatus = "generating"
                    /\ scenes[k].videoPath = SceneJobId(scenes[k].id)
              /\ k \notin sceneRet.submitted => scenes[k].videoStatus = "failed"

C11_Witness ==
    /\ lastOp = "request"
    /\ Len(clips) >= 2
    /\ 1 \notin reqRet
    /\ 2 \in reqRet
    /\ clips[1].status = "failed"
    /\ clips[2].status = "processing"

(***************************************************************************)
(* Properties of the status lifecycle                                      *)
(***************************************************************************)
\* b is a or lies after a on pending -> processing (generating) ->
\* {completed | failed}, completed -> adjusted
Forward(a, b) ==
    \/ a = b
    \/ a = "pending"
    \/ a \in {"processing", "generating"} /\ b \in {"completed", "failed", "adjusted"}
    \/ a = "completed" /\ b = "adjusted"

ClipsMoveForward ==
    \A k \in 1..Len(clips) : Forward(clips[k].status, clips'[k].status)

ScenesMoveForward ==
    \A k \in 1..Len(scenes) : Forward(scenes[k].videoStatus, scenes'[k].videoStatus)

\* C12: under every request, poll, adjust, retry and scene-edit step each
\* clip and scene status stays or moves forward along pending -> processing
\* (generating) -> {completed | failed} -> adjusted; a completed, failed or
\* adjusted entry never returns to pending or processing
C12_StatusOnlyMovesForward ==
    [][ClipsMoveForward /\ ScenesMoveForward]_vars

\* C12 amended: poll, adjust, compose and merge steps, and the one request
\* of the clip pipeline, only move statuses forward; a scene request, retry
\* or edit with video regeneration leaves each scene it does not request as
\* it is and puts each scene it requests to generating or failed, whatever
\* its status was
C12_ForwardExceptOnRequest ==
    [][/\ ClipsMoveForward
       /\ sceneOp' \notin {"request", "retry"} => ScenesMoveForward
       /\ sceneOp' \in {"request", "retry"} =>
             \A k \in 1..Len(scenes) :
                 \/ scenes'[k] = scenes[k]
                 \/ scenes'[k].videoStatus \in {"generating", "failed"}
       /\ sceneOp' = "retry" =>
             \E k \in 1..Len(scenes) :
                 \A j \in 1..Len(scenes) : j # k => scenes'[j] = scenes[j]]_vars

C12_Witness ==
    /\ sceneOp = "poll"
    /\ \E k \in 1..Len(scenes) :
          /\ scenes[k].videoStatus = "completed"
          /\ scenes[k].adjustedVideoPath # NoId
    /\ \E k \in 1..Len(scenes) : scenes[k].videoStatus = "failed"

\* C13: in every state of a timeline a scene has adjustmentType set exactly
\* when its videoStatus is adjusted, also after an adjusted scene was retried
\* or edited with video regeneration
C13_AdjustmentTypeIffAdjusted ==
    \A k \in 1..Len(scenes) :
        (scenes[k].adjustmentType # "unset") <=> (scenes[k].videoStatus = "adjusted")

Adjustable(sc) ==
    sc.videoStatus = "completed" /\ sc.videoPath # NoId /\ sc.videoDurationMs # 0

\* C15: after adjustAllScenes every scene handed to adjustScene is either
\* adjusted or, its adjustment having failed, stands for its unmodified
\* source clip: still completed, the clip used for it downstream is its
\* source video and its reported duration is that video's; the failure of
\* one scene does not keep the others from being adjusted
C15_FailedAdjustFallsBackToSource ==
    [][sceneOp' = "adjust" =>
          \A k \in 1..Len(scenes) :
              Adjustable(scenes[k]) =>
                  \/ /\ scenes'[k].videoStatus = "adjusted"
                     /\ ScenePathOf(scenes'[k]) = AdjustedFile(scenes[k].id)
                  \/ /\ scenes'[k].videoStatus = "completed"
                     /\ ScenePathOf(scenes'[k]) = scenes[k].videoPath
                     /\ scenes'[k].videoDurationMs = scenes[k].videoDurationMs]_vars

(***************************************************************************)
(* Properties of the submitted durations                                   *)
(***************************************************************************)
\* the legal clip lengths of each provider, tenths of a second: 4 to 8 s for
\* veo, 5 to 10 s for higgsfield
ProviderRange(prov) == IF prov = "veo" THEN <<40, 80>> ELSE <<50, 100>>

\* C16: the duration requestClipVideos submits for a clip, which it stores in
\* the clip, lies in the legal range of the provider it is submitted to, for
\* veo and for every other provider
C16_SubmittedDurationInProviderRange ==
    lastOp = "request" =>
        \A k \in reqRet :
            /\ clips[k].duration >= ProviderRange(provider)[1]
            /\ clips[k].duration <= ProviderRange(provider)[2]

(***************************************************************************)
(* C17: whenever persisted clips are polled, each job id is asked of the   *)
(* provider that issued it, whatever provider setting the job record or    *)
(* the process holds                                                       *)
(***************************************************************************)
C17_PolledAtIssuingProvider ==
    \A k \in DOMAIN asked : asked[k] = clips[k].jobId[1]

(***************************************************************************)
(* C18: at most one check-and-upload request at a time is past the status  *)
(* check of a job, polling, downloading or merging its clips               *)
(***************************************************************************)
C18_OneDriverAtATime ==
    Cardinality({d \in Drivers : ticks[d].pc \in {"poll", "merge"}}) <= 1

(***************************************************************************)
(* C20: a check-and-upload request whose poll leaves every clip settled,   *)
(* some completed and some failed, goes on to merge, and when its merge    *)
(* and its upload (if enabled) succeed it leaves the job completed         *)
(***************************************************************************)
PartialFailure(cl) ==
    /\ \A k \in 1..Len(cl) : IsSettled(cl[k])
    /\ \E k \in 1..Len(cl) : cl[k].status = "completed"
    /\ \E k \in 1..Len(cl) : cl[k].status = "failed"

PartialFailureEndsCompleted ==
    \A d \in Drivers :
        /\ (ticks[d].pc = "poll" /\ ticks'[d].pc # "poll" /\ PartialFailure(clips'))
              => (ticks'[d].pc = "merge" /\ job'.status = "merge")
        /\ (/\ ticks[d].pc = "merge"
            /\ ticks'[d].pc = "idle"
            /\ PartialFailure(ticks[d].clips)
            /\ ~mergeRet'.result.threw
            /\ ~(job'.status = "failed" /\ job'.errorMessage = "upload"))
              => job'.status = "completed"

C20_PartialFailureEndsCompleted == [][PartialFailureEndsCompleted]_vars

C20_Witness ==
    /\ job.status = "completed"
    /\ PartialFailure(clips)
    /\ mergeRet.called
    /\ ~mergeRet.result.threw

(***************************************************************************)
(* C19: no operation of the pipeline writes a media filename that an       *)
(* earlier download, adjustment or composition already wrote               *)
(***************************************************************************)
C19_MediaFilesWrittenOnce == [][sceneWrote' \cap sceneFiles = {}]_vars

(***************************************************************************)
(* C21: a check-and-upload request whose poll leaves every clip settled    *)
(* and none completed sets the job failed with an error message and never  *)
(* goes on to merge                                                        *)
(***************************************************************************)
TotalFailure(cl) ==
    /\ \A k \in 1..Len(cl) : IsSettled(cl[k])
    /\ \A k \in 1..Len(cl) : cl[k].status # "completed"

TotalFailureFailsJob ==
    \A d \in Drivers :
        (ticks[d].pc = "poll" /\ ticks'[d].pc # "poll" /\ TotalFailure(clips'))
           => /\ job'.status = "failed"
              /\ job'.errorMessage # "none"
              /\ ticks'[d].pc = "idle"
              /\ mergeRet' = mergeRet

C21_TotalFailureFailsJob == [][TotalFailureFailsJob]_vars

C21_Witness ==
    /\ job.status = "failed"
    /\ job.errorMessage = "clips"
    /\ TotalFailure(clips)
    /\ ~mergeRet.called

(***************************************************************************)
(* C22: a call that throws while one clip is polled, downloaded or saved   *)
(* does not leave the poll: the poll returns, every other queried clip is  *)
(* still updated from its own answer, and the clip whose call threw is     *)
(* left as it was                                                          *)
(***************************************************************************)
ClipPolledAlone(k) ==
    LET o == pollRet'.outcome[k] IN
    /\ o = "completed" => clips'[k].status = "completed"
    /\ o = "failed" => clips'[k] = [clips[k] EXCEPT !.status = "failed"]
    /\ o \notin {"completed", "failed"} => clips'[k] = clips[k]

ScenePolledAlone(k) ==
    LET o == sceneRet'.outcome[k] IN
    /\ o = "completed" => scenes'[k].videoStatus = "completed"
    /\ o = "failed" => scenes'[k] = [scenes[k] EXCEPT !.videoStatus = "failed"]
    /\ o \notin {"completed", "failed"} => scenes'[k] = scenes[k]

C22_PollSurvivesThrow ==
    [][/\ lastOp' = "poll" => \A k \in pollRet'.queried : ClipPolledAlone(k)
       /\ sceneOp' = "poll" => \A k \in sceneRet'.queried : ScenePolledAlone(k)]_vars

C22_Witness ==
    /\ lastOp = "poll"
    /\ \E j, k \in pollRet.queried :
          /\ j < k
          /\ pollRet.outcome[j] = "throws"
          /\ pollRet.outcome[k] = "completed"
          /\ clips[j].status = "processing"
          /\ clips[k].status = "completed"

(***************************************************************************)
(* C23: after a poll in which the provider's status call for a clip fails, *)
(* that clip has status failed                                             *)
(***************************************************************************)
C23_PollFailureMarksClipFailed ==
    /\ lastOp = "poll" =>
          \A k \in pollRet.queried :
              pollRet.outcome[k] = "throws" => clips[k].status = "failed"
    /\ sceneOp = "poll" =>
          \A k \in sceneRet.queried :
              sceneRet.outcome[k] = "throws" => scenes[k].videoStatus = "failed"

(***************************************************************************)
(* C24: a script without sentences is split into no sections at all, for   *)
(* every audio duration and every target, minimum and maximum              *)
(***************************************************************************)
SegSentences == splitIntoSentences(segIn.script)

C24_NoSentencesNoSections ==
    (segOut.called /\ SegSentences = <<>>) => segOut.sections = <<>>

C24_Witness ==
    /\ segOut.called
    /\ SegSentences = <<>>
    /\ Len(segIn.script) > 0
    /\ segOut.sections = <<>>

(***************************************************************************)
(* C25: a script of one sentence whose estimated duration exceeds the      *)
(* maximum becomes exactly one section, holding the whole sentence, of     *)
(* duration maxDuration                                                    *)
(***************************************************************************)
LongSingleSentence ==
    /\ Len(SegSentences) = 1
    /\ Len(SegSentences[1]) * segIn.audioDuration
          > segIn.maxDuration * Len(segIn.script)

\* the narration itself is longer than the maximum; the estimate of the one
\* sentence is at most the narration's length
LongSingleNarration ==
    /\ Len(SegSentences) = 1
    /\ segIn.audioDuration > segIn.maxDuration

C25_LongSentenceOneSectionAtMax ==
    (segOut.called /\ (LongSingleSentence \/ LongSingleNarration)) =>
        segOut.sections = <<[text |-> SegSentences[1], duration |-> segIn.maxDuration]>>

C25_Witness ==
    /\ segOut.called
    /\ LongSingleSentence
    /\ Len(segOut.sections) = 1
    /\ segOut.sections[1].duration = segIn.maxDuration

(***************************************************************************)
(* C28: no section of several sentences has an estimated duration, before  *)
(* clamping, of more than targetClipDuration + 1.5 s: a sentence that      *)
(* would push the open section past that starts a new section, the last    *)
(* sentence of the script included                                         *)
(***************************************************************************)
RECURSIVE SumLen(_)
SumLen(ss) == IF ss = <<>> THEN 0 ELSE Len(Head(ss)) + SumLen(Tail(ss))

C28_NoSectionPastTarget ==
    segOut.called =>
        \A k \in 1..Len(segOut.sections) :
            LET ss == splitIntoSentences(segOut.sections[k].text) IN
            Len(ss) > 1 =>
                SumLen(ss) * segIn.audioDuration
                    <= (segIn.targetClipDuration + 15) * Len(segIn.script)

(***************************************************************************)
(* C30: the texts of the sections, joined by spaces in order, are the      *)
(* sentences of the script joined by spaces in order: no sentence is lost, *)
(* repeated or moved                                                       *)
(***************************************************************************)
SectionTexts == [k \in 1..Len(segOut.sections) |-> segOut.sections[k].text]

C30_TextPreserved ==
    segOut.called => JoinSpace(SectionTexts) = JoinSpace(SegSentences)

C30_Witness ==
    /\ segOut.called
    /\ Len(SegSentences) >= 3
    /\ Len(segOut.sections) >= 2
    /\ JoinSpace(SectionTexts) = JoinSpace(SegSentences)

(***************************************************************************)
(* C26: polling is bounded: a job whose clip never settles at the provider *)
(* does not stay in render forever; after finitely many polling ticks the  *)
(* clip is given up and the job moves on                                   *)
(***************************************************************************)
C26_JobLeavesRender == <>(job.status # "render")

(***************************************************************************)
(* C27: whatever moment the process crashes at, the persisted record of a  *)
(* job in render holds what a polling tick needs, the brewJobId and the    *)
(* job ids of the submitted clips, unless the pipeline is still running    *)
(***************************************************************************)
C27_RenderJobIsPollable ==
    (job.status = "render" /\ pipeline # "submitting") => job.brewJobId

(***************************************************************************)
(* C29: a check-and-upload request for a job whose status is not render    *)
(* returns at once: it leaves the job record, the clips and the files as   *)
(* they are, asks no provider and merges nothing                           *)
(***************************************************************************)
RefusedLeavesJobAlone ==
    \A d \in Drivers :
        (/\ ticks[d].pc \in {"idle", "refused"}
         /\ ticks'[d] # ticks[d]
         /\ job.status # "render")
           => /\ ticks'[d] = RefusedTick
              /\ UNCHANGED <<job, clips, storage, asked, mergeRet>>

C29_RefusedLeavesJobAlone == [][RefusedLeavesJobAlone]_vars

C29_Witness ==
    /\ job.status \in {"completed", "failed"}
    /\ \E d \in Drivers : ticks[d] = RefusedTick

(***************************************************************************)
(* C31: requestClipVideos, checkAndDownloadClips and checkAndDownloadVideos*)
(* keep the shape of the array                                             *)
(***************************************************************************)
SameIdentity(a, b) ==
    /\ a.index = b.index
    /\ a.scriptSection = b.scriptSection
    /\ a.prompt = b.prompt

\* what the tick did with position k of the clips it was given
PolledAndSettled(k) ==
    /\ k \in pollRet'.queried
    /\ pollRet'.outcome[k] \in {"completed", "failed"}

ClipShapeKept ==
    lastOp' \in {"request", "poll"} =>
        /\ Len(clips') = Len(clips)
        /\ \A k \in 1..Len(clips) : SameIdentity(clips'[k], clips[k])
        /\ lastOp' = "poll" =>
              \A k \in 1..Len(clips) :
                  /\ clips'[k].jobId = clips[k].jobId
                  /\ IsSettled(clips[k]) => clips'[k] = clips[k]
                  /\ clips'[k] # clips[k] => PolledAndSettled(k)

SceneShapeKept ==
    sceneOp' = "poll" =>
        /\ Len(scenes') = Len(scenes)
        /\ \A k \in 1..Len(scenes) :
              /\ scenes'[k].id = scenes[k].id
              /\ scenes'[k].prompt = scenes[k].prompt
              /\ scenes'[k] # scenes[k] =>
                    /\ k \in sceneRet'.queried
                    /\ sceneRet'.outcome[k] \in {"completed", "failed"}

C32_StatusHasItsField ==
    \A k \in 1..Len(clips) :
        /\ clips[k].status = "completed" => clips[k].videoUrl # NoId
        /\ clips[k].status = "processing" => clips[k].jobId # NoId

C32_Witness ==
    /\ lastOp = "poll"
    /\ Len(clips) = MaxClips
    /\ \E k \in 1..Len(clips) :
          /\ clips[k].status = "completed"
          /\ clips[k].videoUrl = ClipUrl(k)
    /\ \E k \in 1..Len(clips) :
          /\ clips[k].status = "processing"
          /\ clips[k].jobId = <<provider, k>>
          /\ pollRet.outcome[k] = "completed_no_url"

(***************************************************************************)
(* C33: concurrent updateJobStatus calls                                   *)
(***************************************************************************)
\* the values the finished calls wrote to field f of job id
WrittenTo(id, f) ==
    {calls[c].updates[f] :
        c \in {d \in Callers : calls[d].id = id /\ f \in DOMAIN calls[d].updates}}

\* C33: job-record updates are not lost: once two concurrent updateJobStatus
\* calls, for the same job or for two different jobs, have both finished, the
\* stored jobs file holds for every field a call wrote a value written to it
\* by one of the calls
C33_NoLostUpdate ==
    (\A c \in Callers : calls[c].pc = "done") =>
        \A id \in JobIds : \A f \in JobFields :
            WrittenTo(id, f) # {} => jobsFile[id][f] \in WrittenTo(id, f)

(***************************************************************************)
(* C35: two audio-synchronised merges at the same time                     *)
(***************************************************************************)
\* C35: two mergeVideosWithAudioSync calls for different jobs do not
\* interfere: a call whose ffmpeg has run has read its own clip list and,
\* when it made a filler, its own filler, and it did not fail because the
\* other call's cleanup removed the temporary files it still needed
C35_MergesDoNotInterfere ==
    \A m \in MergeJobs :
        merges[m].pc \in {"ran", "done"} =>
            /\ ~merges[m].threw
            /\ merges[m].read.list = m
            /\ merges[m].short => merges[m].read.filler = m

(***************************************************************************)
(* C36: the composite job identifier round-trips                           *)
(***************************************************************************)
\* C36: for every provider, model, duration and list of clip job ids as the
\* adapters produce them, parsing the brewJobId the pipeline built gives back
\* the same provider, model, duration and list of clip job ids
C36_BrewJobIdRoundTrips ==
    idOut.called =>
        /\ idOut.parsed.ok
        /\ idOut.parsed.provider = <<idIn.provider>>
        /\ idOut.parsed.model = <<idIn.model>>
        /\ idOut.parsed.duration = idIn.duration
        /\ idOut.parsed.jobIds = idIn.jobIds

(***************************************************************************)
(* C34: the persisted clips under overlapping ticks                        *)
(***************************************************************************)
\* C34: under overlapping polling ticks for one job, once the job record
\* stores a clip as completed (with its video URL) or as failed, no later
\* write stores that clip as processing or pending again or puts an older
\* snapshot in its place
C34_PersistedClipNeverRegresses ==
    [][\A k \in 1..Len(clips) : IsSettled(clips[k]) => clips'[k] = clips[k]]_vars

(***************************************************************************)
(* C37: the persisted steps and the job's outcome                          *)
(***************************************************************************)
\* C37: whenever a multi-clip job's persisted status is completed or failed,
\* no persisted step of the job has status processing: a completed job shows
\* render and merge completed, and a job failed by a merge error does not
\* leave merge as processing
C37_StepsAgreeWithOutcome ==
    /\ job.status \in {"completed", "failed"} =>
           /\ job.steps.render # "processing"
           /\ job.steps.merge # "processing"
    /\ job.status = "completed" =>
           /\ job.steps.render = "completed"
           /\ job.steps.merge = "completed"

(***************************************************************************)
(* C38: composition after a regeneration                                   *)
(***************************************************************************)
\* the scene's adjusted file was made from the video the scene has now: a
\* download makes the scene completed and only an adjustment of that video
\* makes it adjusted
AdjustedFromCurrentVideo(sc) == sc.videoStatus = "adjusted"

\* C38: after a scene's video was regenerated, compose never uses the
\* adjusted file made from the superseded video: for every scene compose
\* includes, the path it takes (adjustedVideoPath or videoPath) derives from
\* the scene's most recently completed video
C38_ComposeUsesCurrentVideo ==
    sceneOp = "compose" =>
        \A k \in 1..Len(scenes) :
            (IsValidScene(scenes[k]) /\ ScenePathOf(scenes[k]) = scenes[k].adjustedVideoPath)
                => AdjustedFromCurrentVideo(scenes[k])

C40_MergeAfterSettlement ==
    \A k \in 1..Len(merged) : IsSettled(merged[k])
====
